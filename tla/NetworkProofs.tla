---------------------------- MODULE NetworkProofs ----------------------------
(***************************************************************************)
(* The servers' slots and lwIP's connection blocks stay matched, for any   *)
(* number of slots, sessions, blocks and stream paths, and whoever waits   *)
(* has something coming that wakes it.                                     *)
(*                                                                         *)
(* The handlers go from one record of a server's state to the next, and so *)
(* do the proofs: a record is Sound when its slots match its blocks and    *)
(* its streams are bound one to one; each handler keeps it Sound (lemmas   *)
(* on conn_close, tcp_write, Sent, Streams), leaves the other server's     *)
(* blocks alone and stops no waiting terminal (TelnetKept, TermKept).      *)
(*                                                                         *)
(* And the Telnet parser hands the CLI what was typed, on streams of any   *)
(* length in any segments.                                                 *)
(***************************************************************************)
EXTENDS Network, Arithmetic, FiniteSetTheorems, SequenceTheorems, TLAPS

Conn  == [pcb : Pcbs \cup {NULL}, state : {"IDLE", "RECEIVING", "SENDING", "SSE"}, left : Nat]
Sess  == [pcb : Pcbs \cup {NULL}, active : BOOLEAN]
HttpOwner   == {"http"} \X Slots
TelnetOwner == {"telnet"} \X Tel!Sessions
Owner == HttpOwner \cup TelnetOwner \cup {Nobody}

World ==
  [conns : [Slots -> Conn], chan : [Paths -> Pcbs \cup {NULL}], term_conn : Slots \cup {0},
   owner : [Pcbs -> Owner], flight : [Pcbs -> 0 .. SND_BUF], starved : SUBSET Pcbs]

TelWorld ==
  [conns : [Tel!Sessions -> Sess], current_conn : Tel!Sessions \cup {0}, owner : [Pcbs -> Owner]]

\* Woken, of a record.
Awake(w, p) == w.flight[p] > 0 \/ p \in w.starved

\* A slot's block has the slot as its argument, and only it.
Matched(w) ==
  /\ \A p \in Pcbs, c \in Slots : w.owner[p] = <<"http", c>> <=> w.conns[c].pcb = p
  /\ \A c \in Slots : w.conns[c].state = "IDLE" <=> w.conns[c].pcb = NULL

TelMatched(w) ==
  /\ \A p \in Pcbs, c \in Tel!Sessions : w.owner[p] = <<"telnet", c>> <=> w.conns[c].pcb = p
  /\ \A c \in Tel!Sessions : w.conns[c].active <=> w.conns[c].pcb # NULL
  /\ w.current_conn # 0 => w.conns[w.current_conn].active

\* Streams and what they are bound to: the terminal, or one channel.
Bound(w) ==
  /\ w.term_conn # 0 => w.conns[w.term_conn].state = "SSE"
  /\ \A k \in Paths : w.chan[k] # NULL =>
       \E c \in Slots : w.conns[c].pcb = w.chan[k] /\ w.conns[c].state = "SSE" /\ w.term_conn # c
  /\ \A j, k \in Paths : w.chan[j] = w.chan[k] /\ w.chan[k] # NULL => j = k

\* A stream is bound to something, a response has something to wake it.
Served(w, c) ==
  /\ w.conns[c].state = "SSE" => w.term_conn = c \/ \E k \in Paths : w.chan[k] = w.conns[c].pcb
  /\ w.conns[c].state = "SENDING" => Awake(w, w.conns[c].pcb)

\* In the middle of a handler the slots cs may not be served yet.
SoundBut(w, cs) ==
  w \in World /\ Matched(w) /\ Bound(w) /\ \A c \in Slots \ cs : Served(w, c)

Sound(w) == SoundBut(w, {})

TelSound(w) == w \in TelWorld /\ TelMatched(w)

\* A server that is stopped has no connection.
Stopped ==
  /\ ~listener => \A c \in Slots : conns[c].pcb = NULL
  /\ ~telnet_listener => \A c \in Tel!Sessions : ~sessions[c].active

\* The terminal and the CLI's output have something to wake them.
Waiting ==
  /\ keepalives \in Nat /\ (term_conn # 0 => keepalives > 0)
  /\ emit_retry_pending \in BOOLEAN /\ retries = IF emit_retry_pending THEN 1 ELSE 0
  /\ emitq = "new" /\ ~event =>
       /\ emitter = "cdc" => emit_retry_pending
       /\ emitter = "http" /\ term_conn # 0 => Woken(conns[term_conn].pcb)

NInv == Sound(Now) /\ TelSound(Tel!Now) /\ Stopped /\ Waiting

-----------------------------------------------------------------------------
USE NullAssumption, HttpAssumption, NetworkAssumption

LEMMA SlotNumbers ==
  /\ Slots \in SUBSET Nat /\ 0 \notin Slots
  /\ Tel!Sessions \in SUBSET Nat /\ 0 \notin Tel!Sessions
  BY DEF Slots, Tel!Sessions

LEMMA IdleConn == Idle \in Conn /\ Tel!Free \in Sess
  BY DEF Idle, Conn, Tel!Free, Sess

\* Two slots never hold one block.
LEMMA OneSlot ==
  ASSUME NEW w \in World, Matched(w), NEW c \in Slots, NEW d \in Slots,
         w.conns[c].pcb = w.conns[d].pcb, w.conns[c].pcb # NULL
  PROVE  c = d
<1>1. w.conns[c].pcb \in Pcbs
  BY DEF World, Conn
<1>2. <<"http", c>> = <<"http", d>>
  BY <1>1 DEF Matched
<1> QED
  BY <1>2

(***************************************************************************)
(* conn_close(), of any set of slots.                                      *)
(***************************************************************************)
LEMMA CloseFields ==
  ASSUME NEW w \in World, NEW cs \in SUBSET Slots
  PROVE  LET open == Open(w, cs)
             ps   == BlocksOf(w, open)
             v    == conn_close(w, cs)
         IN  /\ v \in World
             /\ v.conns = [c \in Slots |-> IF c \in open THEN Idle ELSE w.conns[c]]
             /\ v.term_conn = IF w.term_conn \in open THEN 0 ELSE w.term_conn
             /\ v.chan = [k \in Paths |-> IF w.chan[k] \in ps THEN NULL ELSE w.chan[k]]
             /\ v.owner = [p \in Pcbs |-> IF p \in ps THEN Nobody ELSE w.owner[p]]
             /\ v.flight = [p \in Pcbs |-> IF p \in ps THEN 0 ELSE w.flight[p]]
             /\ v.starved = w.starved \ ps
<1> DEFINE open == Open(w, cs)
           ps   == BlocksOf(w, open)
           v    == conn_close(w, cs)
           C == [c \in Slots |-> IF c \in open THEN Idle ELSE w.conns[c]]
           T == IF w.term_conn \in open THEN 0 ELSE w.term_conn
           K == [k \in Paths |-> IF w.chan[k] \in ps THEN NULL ELSE w.chan[k]]
           O == [p \in Pcbs |-> IF p \in ps THEN Nobody ELSE w.owner[p]]
           F == [p \in Pcbs |-> IF p \in ps THEN 0 ELSE w.flight[p]]
           S == w.starved \ ps
<1>1. w = [conns |-> w.conns, chan |-> w.chan, term_conn |-> w.term_conn,
           owner |-> w.owner, flight |-> w.flight, starved |-> w.starved]
  BY DEF World
<1>2. v = [conns |-> C, chan |-> K, term_conn |-> T, owner |-> O, flight |-> F, starved |-> S]
  <2> DEFINE a == clear_sse_for_conn(w, open)
             b == conn_free(a, open)
             r == Released(b, ps)
  <2>1. a = [w EXCEPT !.term_conn = T, !.chan = K]
    BY DEF clear_sse_for_conn
  <2> HIDE DEF a, T, K, C, O, F, S
  <2>2. a = [conns |-> w.conns, chan |-> K, term_conn |-> T, owner |-> w.owner,
             flight |-> w.flight, starved |-> w.starved]
    BY <1>1, <2>1
  <2>3. a.conns = w.conns /\ a.owner = w.owner /\ a.flight = w.flight
    BY <2>2
  <2>4. b = [a EXCEPT !.conns = C]
    BY <2>3 DEF conn_free, C
  <2> HIDE DEF b
  <2>5. b = [conns |-> C, chan |-> K, term_conn |-> T, owner |-> w.owner, flight |-> w.flight,
             starved |-> w.starved]
    BY <2>2, <2>4
  <2>6. b.owner = w.owner /\ b.flight = w.flight /\ b.starved = w.starved
    BY <2>5
  <2>7. r = [b EXCEPT !.owner = O]
    BY <2>6 DEF Released, O
  <2> HIDE DEF r
  <2>8. r = [conns |-> C, chan |-> K, term_conn |-> T, owner |-> O, flight |-> w.flight,
             starved |-> w.starved]
    BY <2>5, <2>7
  <2>9. Gone(b, ps) = [r EXCEPT !.flight = F, !.starved = S]
    BY <2>6 DEF Gone, r, F, S
  <2>10. v = Gone(b, ps)
    BY DEF conn_close, a, b
  <2> HIDE DEF v
  <2> QED
    BY <2>8, <2>9, <2>10
<1>3. C \in [Slots -> Conn] /\ K \in [Paths -> Pcbs \cup {NULL}] /\ T \in Slots \cup {0}
      /\ O \in [Pcbs -> Owner] /\ F \in [Pcbs -> 0 .. SND_BUF] /\ S \in SUBSET Pcbs
  <2> HIDE DEF ps, open
  <2>1. C \in [Slots -> Conn]
    BY IdleConn DEF World
  <2>2. K \in [Paths -> Pcbs \cup {NULL}]
    BY DEF World
  <2>3. T \in Slots \cup {0}
    BY DEF World
  <2>4. O \in [Pcbs -> Owner]
    BY DEF World, Owner
  <2>5. F \in [Pcbs -> 0 .. SND_BUF]
    BY DEF World
  <2>6. S \in SUBSET Pcbs
    BY DEF World
  <2> QED
    BY <2>1, <2>2, <2>3, <2>4, <2>5, <2>6
<1> HIDE DEF C, T, K, O, F, S, v
<1>4. v \in World
  BY <1>2, <1>3 DEF World
<1>5. v.conns = C /\ v.chan = K /\ v.term_conn = T /\ v.owner = O /\ v.flight = F /\ v.starved = S
  BY <1>2
<1> QED
  BY <1>4, <1>5 DEF C, T, K, O, F, S, v

\* What a close of the slots cs makes of w: of a slot, the terminal and a channel.
Closes(w, cs, v) ==
  /\ \A c \in Slots : IF c \in cs
       THEN v.conns[c].pcb = NULL /\ v.conns[c].state = "IDLE"
       ELSE v.conns[c] = w.conns[c]
  /\ v.term_conn = IF w.term_conn \in cs THEN 0 ELSE w.term_conn
  /\ \A k \in Paths : v.chan[k] = IF \E c \in cs : w.conns[c].pcb = w.chan[k] THEN NULL
                                  ELSE w.chan[k]

LEMMA CloseFacts ==
  ASSUME NEW w, NEW cs \in SUBSET Slots, SoundBut(w, cs)
  PROVE  LET v == conn_close(w, cs) IN
         /\ v \in World /\ Closes(w, cs, v)
         /\ \A p \in Pcbs : IF \E c \in cs : w.conns[c].pcb = p
                            THEN v.owner[p] = Nobody
                            ELSE v.owner[p] = w.owner[p] /\ (Awake(v, p) <=> Awake(w, p))
<1> DEFINE open == Open(w, cs)
           ps   == BlocksOf(w, open)
           v    == conn_close(w, cs)
<1>1. w \in World /\ Matched(w) /\ Bound(w)
  BY DEF SoundBut
<1>2. /\ v \in World
      /\ v.conns = [c \in Slots |-> IF c \in open THEN Idle ELSE w.conns[c]]
      /\ v.term_conn = IF w.term_conn \in open THEN 0 ELSE w.term_conn
      /\ v.chan = [k \in Paths |-> IF w.chan[k] \in ps THEN NULL ELSE w.chan[k]]
      /\ v.owner = [p \in Pcbs |-> IF p \in ps THEN Nobody ELSE w.owner[p]]
      /\ v.flight = [p \in Pcbs |-> IF p \in ps THEN 0 ELSE w.flight[p]]
      /\ v.starved = w.starved \ ps
  BY <1>1, CloseFields
<1>3. \A c \in Slots : c \in open <=> c \in cs /\ w.conns[c].pcb # NULL
  BY DEF Open
<1>4. \A p : p \in ps <=> p # NULL /\ \E c \in cs : w.conns[c].pcb = p
  BY DEF Open, BlocksOf
<1> HIDE DEF open, ps, v
<1>5. Idle.pcb = NULL /\ Idle.state = "IDLE"
  BY DEF Idle
<1>6. \A c \in Slots : IF c \in cs
        THEN v.conns[c].pcb = NULL /\ v.conns[c].state = "IDLE"
        ELSE v.conns[c] = w.conns[c]
  BY <1>1, <1>2, <1>3, <1>5 DEF Matched
<1>7. w.term_conn # 0 => w.conns[w.term_conn].pcb # NULL
  BY <1>1 DEF Matched, Bound, World
<1>8. v.term_conn = IF w.term_conn \in cs THEN 0 ELSE w.term_conn
  BY <1>1, <1>2, <1>3, <1>7, SlotNumbers DEF World
<1>9. ASSUME NEW p \in Pcbs
      PROVE  IF \E c \in cs : w.conns[c].pcb = p
             THEN v.owner[p] = Nobody
             ELSE v.owner[p] = w.owner[p] /\ (Awake(v, p) <=> Awake(w, p))
  <2>1. p # NULL
    OBVIOUS
  <2>2. CASE \E c \in cs : w.conns[c].pcb = p
    BY <1>2, <1>4, <2>1, <2>2
  <2>3. CASE ~ \E c \in cs : w.conns[c].pcb = p
    BY <1>2, <1>4, <2>1, <2>3 DEF Awake
  <2> QED
    BY <2>2, <2>3
<1>10. ASSUME NEW k \in Paths
       PROVE  v.chan[k] = IF \E c \in cs : w.conns[c].pcb = w.chan[k] THEN NULL ELSE w.chan[k]
  BY <1>2, <1>4
<1> QED
  BY <1>2, <1>6, <1>8, <1>9, <1>10 DEF Closes, v

LEMMA CloseSound ==
  ASSUME NEW w, NEW cs \in SUBSET Slots, SoundBut(w, cs)
  PROVE  Sound(conn_close(w, cs))
<1> DEFINE v == conn_close(w, cs)
<1>1. /\ v \in World
      /\ \A c \in Slots : IF c \in cs
           THEN v.conns[c].pcb = NULL /\ v.conns[c].state = "IDLE"
           ELSE v.conns[c] = w.conns[c]
      /\ v.term_conn = IF w.term_conn \in cs THEN 0 ELSE w.term_conn
      /\ \A p \in Pcbs : IF \E c \in cs : w.conns[c].pcb = p
                         THEN v.owner[p] = Nobody
                         ELSE v.owner[p] = w.owner[p] /\ (Awake(v, p) <=> Awake(w, p))
      /\ \A k \in Paths : v.chan[k] = IF \E c \in cs : w.conns[c].pcb = w.chan[k] THEN NULL
                                      ELSE w.chan[k]
  BY CloseFacts DEF Closes
<1> HIDE DEF v
<1>2. w \in World /\ Matched(w) /\ Bound(w) /\ \A c \in Slots \ cs : Served(w, c)
  BY DEF SoundBut
<1>3. \A c, d \in Slots : w.conns[c].pcb = w.conns[d].pcb /\ w.conns[c].pcb # NULL => c = d
  BY <1>2, OneSlot
<1>4. Idle.pcb = NULL /\ Idle.state = "IDLE"
  BY DEF Idle
<1>5. Matched(v)
  <2>1. ASSUME NEW p \in Pcbs, NEW c \in Slots
        PROVE  v.owner[p] = <<"http", c>> <=> v.conns[c].pcb = p
    <3>1. p # NULL /\ Nobody # <<"http", c>>
      BY DEF Nobody
    <3>2. CASE \E d \in cs : w.conns[d].pcb = p
      <4>1. v.owner[p] = Nobody
        BY <1>1, <3>2
      <4>2. v.conns[c].pcb # p
        BY <1>1, <1>3, <1>4, <3>1, <3>2
      <4> QED
        BY <3>1, <4>1, <4>2
    <3>3. CASE ~ \E d \in cs : w.conns[d].pcb = p
      <4>1. v.owner[p] = w.owner[p]
        BY <1>1, <3>3
      <4>2. v.conns[c].pcb = p <=> w.conns[c].pcb = p
        BY <1>1, <1>4, <3>1, <3>3
      <4> QED
        BY <1>2, <4>1, <4>2 DEF Matched
    <3> QED
      BY <3>2, <3>3
  <2>2. \A c \in Slots : v.conns[c].state = "IDLE" <=> v.conns[c].pcb = NULL
    BY <1>1, <1>2, <1>4 DEF Matched
  <2> QED
    BY <2>1, <2>2 DEF Matched
<1>6. Bound(v)
  <2>1. v.term_conn # 0 => v.conns[v.term_conn].state = "SSE"
    BY <1>1, <1>2 DEF Bound, World
  <2>2. ASSUME NEW k \in Paths, v.chan[k] # NULL
        PROVE  \E c \in Slots : v.conns[c].pcb = v.chan[k] /\ v.conns[c].state = "SSE"
                                /\ v.term_conn # c
    <3>1. v.chan[k] = w.chan[k] /\ ~ \E c \in cs : w.conns[c].pcb = w.chan[k]
      BY <1>1, <2>2
    <3>2. PICK c \in Slots : w.conns[c].pcb = w.chan[k] /\ w.conns[c].state = "SSE"
                             /\ w.term_conn # c
      BY <1>2, <2>2, <3>1 DEF Bound
    <3>3. c \notin cs /\ v.conns[c] = w.conns[c] /\ v.term_conn # c
      BY <1>1, <3>1, <3>2, SlotNumbers
    <3> QED
      BY <3>1, <3>2, <3>3
  <2>3. \A j, k \in Paths : v.chan[j] = v.chan[k] /\ v.chan[k] # NULL => j = k
    BY <1>1, <1>2 DEF Bound
  <2> QED
    BY <2>1, <2>2, <2>3 DEF Bound
<1>7. ASSUME NEW c \in Slots
      PROVE  Served(v, c)
  <2>1. CASE c \in cs
    BY <1>1, <1>4, <2>1 DEF Served
  <2>2. CASE c \notin cs /\ w.conns[c].pcb # NULL
    <3>1. v.conns[c] = w.conns[c] /\ Served(w, c) /\ w.conns[c].pcb \in Pcbs
      BY <1>1, <1>2, <2>2 DEF World, Conn
    <3>2. ~ \E d \in cs : w.conns[d].pcb = w.conns[c].pcb
      BY <1>3, <2>2
    <3>3. Awake(v, w.conns[c].pcb) <=> Awake(w, w.conns[c].pcb)
      BY <1>1, <3>1, <3>2
    <3>4. \A k \in Paths : w.chan[k] = w.conns[c].pcb => v.chan[k] = w.chan[k]
      BY <1>1, <3>2
    <3>5. w.term_conn = c => v.term_conn = c
      BY <1>1, <2>2
    <3> QED
      BY <3>1, <3>3, <3>4, <3>5 DEF Served
  <2>3. CASE c \notin cs /\ w.conns[c].pcb = NULL
    BY <1>1, <1>2, <2>3 DEF Matched, Served
  <2> QED
    BY <2>1, <2>2, <2>3
<1> QED
  BY <1>1, <1>5, <1>6, <1>7 DEF Sound, SoundBut, v

(***************************************************************************)
(* A slot's own changes.                                                   *)
(***************************************************************************)
LEMMA SoundFacts ==
  ASSUME NEW w, Sound(w)
  PROVE  /\ w \in World /\ Matched(w) /\ Bound(w) /\ \A c \in Slots : Served(w, c)
         /\ \A cs \in SUBSET Slots : SoundBut(w, cs)
  BY DEF Sound, SoundBut

\* A write, granted or refused, leaves something to wake its connection and
\* changes nothing else.
LEMMA WriteFacts ==
  ASSUME NEW w \in World, NEW p \in Pcbs, NEW n \in Nat, n > 0, NEW granted \in BOOLEAN
  PROVE  LET v == tcp_write(w, p, n, granted) IN
         /\ v \in World /\ v.conns = w.conns /\ v.chan = w.chan /\ v.owner = w.owner
         /\ v.term_conn = w.term_conn
         /\ Awake(v, p) /\ \A q \in Pcbs \ {p} : Awake(v, q) <=> Awake(w, q)
<1> DEFINE v == tcp_write(w, p, n, granted)
<1>1. w.flight[p] \in 0 .. SND_BUF /\ w.flight \in [Pcbs -> 0 .. SND_BUF] /\ w.starved \in SUBSET Pcbs
  BY DEF World
<1>2. CASE granted /\ n <= Room(w, p)
  <2> DEFINE F == [w.flight EXCEPT ![p] = w.flight[p] + n]
             S == w.starved \ {p}
  <2>1. w.flight[p] + n \in 0 .. SND_BUF /\ w.flight[p] + n > 0
    BY <1>1, <1>2 DEF Room
  <2>2. F \in [Pcbs -> 0 .. SND_BUF] /\ F[p] > 0 /\ (\A q \in Pcbs \ {p} : F[q] = w.flight[q])
        /\ S \in SUBSET Pcbs
    BY <1>1, <2>1
  <2>3. v = [w EXCEPT !.flight = F, !.starved = S]
    BY <1>2 DEF tcp_write, World
  <2> HIDE DEF v, F
  <2>4. v \in World /\ v.conns = w.conns /\ v.chan = w.chan /\ v.owner = w.owner
        /\ v.term_conn = w.term_conn /\ v.flight = F /\ v.starved = S
    BY <2>2, <2>3 DEF World
  <2> QED
    BY <2>2, <2>4 DEF Awake, v
<1>3. CASE ~(granted /\ n <= Room(w, p))
  <2> DEFINE S == w.starved \cup {q \in {p} : w.flight[q] = 0}
  <2>1. S \in SUBSET Pcbs
    BY <1>1
  <2>2. v = [w EXCEPT !.starved = S]
    BY <1>3 DEF tcp_write
  <2> HIDE DEF v
  <2>3. v \in World /\ v.conns = w.conns /\ v.chan = w.chan /\ v.owner = w.owner
        /\ v.term_conn = w.term_conn /\ v.flight = w.flight /\ v.starved = S
    BY <2>1, <2>2 DEF World
  <2> QED
    BY <1>1, <2>3 DEF Awake, v
<1> QED
  BY <1>2, <1>3

\* What an upgrade to an event stream changes.
LEMMA StreamsFields ==
  ASSUME NEW w, NEW c \in Slots, Sound(w), w.conns[c].state = "RECEIVING",
         NEW granted \in BOOLEAN
  PROVE  LET v == Streams(w, c, granted)
             b == w.conns[c].pcb
         IN  /\ v \in World /\ b \in Pcbs /\ Awake(v, b) /\ Matched(v)
             /\ v.chan = w.chan /\ v.owner = w.owner /\ v.term_conn = w.term_conn
             /\ v.conns[c].pcb = b /\ v.conns[c].state = "SSE"
             /\ \A d \in Slots \ {c} : v.conns[d] = w.conns[d]
             /\ \A p \in Pcbs : Awake(w, p) => Awake(v, p)
<1> DEFINE v == Streams(w, c, granted)
           b == w.conns[c].pcb
           C == [w.conns EXCEPT ![c].state = "SSE"]
           u == [w EXCEPT !.conns = C]
<1>1. w \in World /\ Matched(w)
  BY SoundFacts
<1>2. b \in Pcbs
  BY <1>1 DEF World, Conn, Matched
<1>3. v = tcp_write(u, b, 1, granted)
  BY <1>1 DEF Streams, World
<1>4. C \in [Slots -> Conn] /\ C[c].state = "SSE"
      /\ (\A d \in Slots : C[d].pcb = w.conns[d].pcb /\ (d # c => C[d] = w.conns[d]))
  BY <1>1 DEF World, Conn
<1> HIDE DEF v, C
<1>5. u \in World /\ u.conns = C /\ u.chan = w.chan /\ u.owner = w.owner /\ u.flight = w.flight
      /\ u.term_conn = w.term_conn /\ u.starved = w.starved
  BY <1>1, <1>4 DEF World
<1> HIDE DEF u
<1>6. /\ v \in World /\ v.conns = C /\ v.chan = w.chan /\ v.owner = w.owner
      /\ v.term_conn = w.term_conn
      /\ Awake(v, b) /\ \A q \in Pcbs \ {b} : Awake(v, q) <=> Awake(u, q)
  BY <1>2, <1>3, <1>5, WriteFacts
<1>7. Matched(v)
  BY <1>1, <1>4, <1>6 DEF Matched
<1>8. \A q \in Pcbs : Awake(w, q) => Awake(v, q)
  BY <1>5, <1>6 DEF Awake
<1> QED
  BY <1>2, <1>4, <1>6, <1>7, <1>8 DEF v

\* The terminal's stream, once the one before it is closed.
LEMMA TerminalSound ==
  ASSUME NEW w, NEW c \in Slots, Sound(w), w.conns[c].state = "RECEIVING", w.term_conn = 0,
         NEW granted \in BOOLEAN
  PROVE  LET v == [Streams(w, c, granted) EXCEPT !.term_conn = c] IN
         /\ Sound(v) /\ v.term_conn = c /\ Awake(v, v.conns[c].pcb) /\ v.owner = w.owner
<1> DEFINE s == Streams(w, c, granted)
           b == w.conns[c].pcb
           v == [s EXCEPT !.term_conn = c]
<1>1. /\ s \in World /\ b \in Pcbs /\ Awake(s, b) /\ Matched(s)
      /\ s.chan = w.chan /\ s.owner = w.owner /\ s.term_conn = w.term_conn
      /\ s.conns[c].pcb = b /\ s.conns[c].state = "SSE"
      /\ \A d \in Slots \ {c} : s.conns[d] = w.conns[d]
      /\ \A p \in Pcbs : Awake(w, p) => Awake(s, p)
  BY StreamsFields
<1>2. w \in World /\ Matched(w) /\ Bound(w) /\ \A d \in Slots : Served(w, d)
  BY SoundFacts
<1> HIDE DEF s
<1>3. v \in World /\ v.conns = s.conns /\ v.flight = s.flight /\ v.starved = s.starved /\ v.chan = w.chan
      /\ v.owner = s.owner /\ v.term_conn = c
  BY <1>1 DEF World
<1> HIDE DEF v
<1>4. Matched(v)
  BY <1>1, <1>3 DEF Matched
<1>5. Bound(v)
  <2>1. v.term_conn # 0 => v.conns[v.term_conn].state = "SSE"
    BY <1>1, <1>3
  <2>2. ASSUME NEW k \in Paths, v.chan[k] # NULL
        PROVE  \E d \in Slots : v.conns[d].pcb = v.chan[k] /\ v.conns[d].state = "SSE"
                                /\ v.term_conn # d
    <3>1. PICK d \in Slots : w.conns[d].pcb = w.chan[k] /\ w.conns[d].state = "SSE"
      BY <1>2, <1>3, <2>2 DEF Bound
    <3>2. d # c
      BY <3>1
    <3> QED
      BY <1>1, <1>3, <3>1, <3>2
  <2> QED
    BY <1>2, <1>3, <2>1, <2>2 DEF Bound
<1>6. ASSUME NEW d \in Slots
      PROVE  Served(v, d)
  <2>1. CASE d = c
    BY <1>1, <1>3, <2>1 DEF Served, Awake
  <2>2. CASE d # c
    <3>1. v.conns[d] = w.conns[d] /\ Served(w, d) /\ w.term_conn # d
      BY <1>1, <1>2, <1>3, <2>2, SlotNumbers
    <3>2. w.conns[d].state = "SENDING" => w.conns[d].pcb \in Pcbs
      BY <1>2 DEF Matched, World, Conn
    <3> QED
      BY <1>1, <1>3, <3>1, <3>2 DEF Served, Awake
  <2> QED
    BY <2>1, <2>2
<1>7. Awake(v, v.conns[c].pcb)
  BY <1>1, <1>3 DEF Awake
<1> QED
  BY <1>1, <1>3, <1>4, <1>5, <1>6, <1>7 DEF Sound, SoundBut, s, v

\* A channel's stream, once whoever had the channel is closed.
LEMMA ChannelSound ==
  ASSUME NEW w, NEW c \in Slots, Sound(w), w.conns[c].state = "RECEIVING",
         NEW k \in Paths, w.chan[k] = NULL, NEW b, b = w.conns[c].pcb, NEW granted \in BOOLEAN
  PROVE  LET v == [Streams(w, c, granted) EXCEPT !.chan[k] = b] IN
         /\ Sound(v) /\ v.term_conn = w.term_conn /\ v.owner = w.owner
         /\ \A d \in Slots : v.conns[d].pcb = w.conns[d].pcb
         /\ \A p \in Pcbs : Awake(w, p) => Awake(v, p)
<1> DEFINE s == Streams(w, c, granted)
           v == [s EXCEPT !.chan[k] = b]
           K == [w.chan EXCEPT ![k] = b]
<1>1. /\ s \in World /\ b \in Pcbs /\ Awake(s, b) /\ Matched(s)
      /\ s.chan = w.chan /\ s.owner = w.owner /\ s.term_conn = w.term_conn
      /\ s.conns[c].pcb = b /\ s.conns[c].state = "SSE"
      /\ \A d \in Slots \ {c} : s.conns[d] = w.conns[d]
      /\ \A p \in Pcbs : Awake(w, p) => Awake(s, p)
  BY StreamsFields
<1>2. w \in World /\ Matched(w) /\ Bound(w) /\ \A d \in Slots : Served(w, d)
  BY SoundFacts
<1> HIDE DEF s
<1>3. v = [s EXCEPT !.chan = K]
  BY <1>1 DEF World
<1>4. K \in [Paths -> Pcbs \cup {NULL}] /\ K[k] = b /\ \A j \in Paths \ {k} : K[j] = w.chan[j]
  BY <1>1, <1>2 DEF World
<1> HIDE DEF v, K
<1>5. v \in World /\ v.conns = s.conns /\ v.flight = s.flight /\ v.starved = s.starved /\ v.chan = K
      /\ v.owner = s.owner /\ v.term_conn = w.term_conn
  BY <1>1, <1>3, <1>4 DEF World
<1>6. Matched(v)
  BY <1>1, <1>5 DEF Matched
<1>7. w.term_conn # c /\ \A j \in Paths : w.chan[j] # b
  <2>1. w.term_conn # c
    BY <1>2, SlotNumbers DEF Bound
  <2>2. ASSUME NEW j \in Paths, w.chan[j] = b
        PROVE  FALSE
    <3>1. PICK d \in Slots : w.conns[d].pcb = b /\ w.conns[d].state = "SSE"
      BY <1>1, <1>2, <2>2 DEF Bound
    <3>2. d = c
      BY <1>1, <1>2, <3>1, OneSlot
    <3> QED
      BY <3>1, <3>2
  <2> QED
    BY <2>1, <2>2
<1>8. Bound(v)
  <2>1. v.term_conn # 0 => v.conns[v.term_conn].state = "SSE"
    BY <1>1, <1>2, <1>5, <1>7 DEF Bound, World
  <2>2. ASSUME NEW j \in Paths, v.chan[j] # NULL
        PROVE  \E d \in Slots : v.conns[d].pcb = v.chan[j] /\ v.conns[d].state = "SSE"
                                /\ v.term_conn # d
    <3>1. CASE j = k
      BY <1>1, <1>4, <1>5, <1>7, <3>1
    <3>2. CASE j # k
      <4>1. PICK d \in Slots : w.conns[d].pcb = w.chan[j] /\ w.conns[d].state = "SSE"
                               /\ w.term_conn # d
        BY <1>2, <1>4, <1>5, <2>2, <3>2 DEF Bound
      <4>2. d # c
        BY <4>1
      <4> QED
        BY <1>1, <1>4, <1>5, <3>2, <4>1, <4>2
    <3> QED
      BY <3>1, <3>2
  <2>3. ASSUME NEW i \in Paths, NEW j \in Paths, v.chan[i] = v.chan[j], v.chan[j] # NULL
        PROVE  i = j
    <3>1. CASE i = k \/ j = k
      BY <1>4, <1>5, <1>7, <2>3, <3>1
    <3>2. CASE i # k /\ j # k
      BY <1>2, <1>4, <1>5, <2>3, <3>2 DEF Bound
    <3> QED
      BY <3>1, <3>2
  <2> QED
    BY <2>1, <2>2, <2>3 DEF Bound
<1>9. ASSUME NEW d \in Slots
      PROVE  Served(v, d)
  <2>1. CASE d = c
    BY <1>1, <1>4, <1>5, <2>1 DEF Served, Awake
  <2>2. CASE d # c
    <3>1. v.conns[d] = w.conns[d] /\ Served(w, d)
      BY <1>1, <1>2, <1>5, <2>2
    <3>2. w.conns[d].state \in {"SENDING", "SSE"} => w.conns[d].pcb \in Pcbs
      BY <1>2 DEF Matched, World, Conn
    <3>3. w.conns[d].state = "SENDING" => Awake(v, v.conns[d].pcb)
      BY <1>1, <1>5, <3>1, <3>2 DEF Served, Awake
    <3>4. w.conns[d].state = "SSE" =>
            v.term_conn = d \/ \E j \in Paths : v.chan[j] = v.conns[d].pcb
      <4>1. ASSUME NEW j \in Paths, w.chan[j] = w.conns[d].pcb, w.conns[d].state = "SSE"
            PROVE  v.chan[j] = v.conns[d].pcb
        <5>1. j # k
          BY <3>2, <4>1, NullAssumption
        <5> QED
          BY <1>4, <1>5, <3>1, <4>1, <5>1
      <4> QED
        BY <1>5, <3>1, <4>1 DEF Served, Awake
    <3> QED
      BY <3>1, <3>3, <3>4 DEF Served, Awake
  <2> QED
    BY <2>1, <2>2
<1>10. \A d \in Slots : v.conns[d].pcb = w.conns[d].pcb
  BY <1>1, <1>5
<1>11. \A p \in Pcbs : Awake(w, p) => Awake(v, p)
  BY <1>1, <1>5 DEF Awake
<1> QED
  BY <1>1, <1>5, <1>6, <1>8, <1>9, <1>10, <1>11 DEF Sound, SoundBut, s, v

-----------------------------------------------------------------------------
(***************************************************************************)
(* The steps of the HTTP server.                                           *)
(***************************************************************************)
\* The sessions' blocks are theirs in w as they are now.
TelnetKept(w) ==
  \A p \in Pcbs, c \in Tel!Sessions : w.owner[p] = <<"telnet", c>> <=> owner[p] = <<"telnet", c>>

\* A terminal in w is the one there is, with as much to wake it.
TermKept(w) ==
  w.term_conn # 0 => /\ w.term_conn = term_conn
                     /\ Woken(conns[term_conn].pcb) => Awake(w, w.conns[term_conn].pcb)

LEMMA NowFacts ==
  ASSUME NInv
  PROVE  /\ Sound(Now) /\ Now \in World /\ Matched(Now) /\ Bound(Now)
         /\ \A c \in Slots : Served(Now, c)
         /\ conns \in [Slots -> Conn] /\ chan \in [Paths -> Pcbs \cup {NULL}]
         /\ term_conn \in Slots \cup {0} /\ owner \in [Pcbs -> Owner]
         /\ flight \in [Pcbs -> 0 .. SND_BUF] /\ starved \in SUBSET Pcbs
         /\ Now.conns = conns /\ Now.chan = chan /\ Now.term_conn = term_conn
         /\ Now.owner = owner /\ Now.flight = flight /\ Now.starved = starved
         /\ \A p : Awake(Now, p) <=> Woken(p)
<1>1. Sound(Now)
  BY DEF NInv
<1>2. Now \in World /\ Matched(Now) /\ Bound(Now) /\ \A c \in Slots : Served(Now, c)
  BY <1>1, SoundFacts
<1>3. Now.conns = conns /\ Now.chan = chan /\ Now.term_conn = term_conn
      /\ Now.owner = owner /\ Now.flight = flight /\ Now.starved = starved
  BY DEF Now
<1>4. \A p : Awake(Now, p) <=> Woken(p)
  BY <1>3 DEF Awake, Woken
<1> QED
  BY <1>1, <1>2, <1>3, <1>4 DEF World

LEMMA BecomesNow ==
  ASSUME NEW w \in World, Becomes(w)
  PROVE  Now' = w
  BY DEF Becomes, Now, World

\* A step that leaves Telnet and USB alone.
LEMMA WebStep ==
  ASSUME NInv, NEW w, Sound(w), TelnetKept(w), Becomes(w), UNCHANGED <<telnet, cdc>>,
         ~listener' => \A c \in Slots : w.conns[c].pcb = NULL,
         keepalives' \in Nat, w.term_conn # 0 => keepalives' > 0,
         emitq' = "new" /\ ~event' /\ emitter' = "cdc" => emit_retry_pending,
         emitq' = "new" /\ ~event' /\ emitter' = "http" /\ w.term_conn # 0
           => Awake(w, w.conns[w.term_conn].pcb)
  PROVE  NInv'
<1>1. w \in World
  BY DEF Sound, SoundBut
<1>2. Now' = w
  BY <1>1, BecomesNow
<1>3. Sound(Now')
  BY <1>2
<1>4. /\ owner' = w.owner /\ flight' = w.flight /\ starved' = w.starved
      /\ term_conn' = w.term_conn /\ conns' = w.conns
  BY DEF Becomes
<1>5. TelSound(Tel!Now)'
  <2>1. Tel!Now \in TelWorld /\ TelMatched(Tel!Now)
    BY DEF NInv, TelSound
  <2>2. sessions' = sessions /\ current_conn' = current_conn
    BY DEF telnet
  <2>3. owner' \in [Pcbs -> Owner]
    BY <1>1, <1>4 DEF World
  <2>4. Tel!Now' \in TelWorld
    BY <2>1, <2>2, <2>3 DEF Tel!Now, TelWorld
  <2>5. TelMatched(Tel!Now')
    BY <1>4, <2>1, <2>2 DEF TelMatched, Tel!Now, TelnetKept
  <2> QED
    BY <2>4, <2>5 DEF TelSound
<1>6. Stopped'
  BY <1>4 DEF NInv, Stopped, telnet
<1>7. Waiting'
  <2>1. w.term_conn # 0 /\ Awake(w, w.conns[w.term_conn].pcb) => Woken(conns[term_conn].pcb)'
    BY <1>4 DEF Awake, Woken
  <2> QED
    BY <1>4, <2>1 DEF NInv, Waiting, cdc
<1> QED
  BY <1>3, <1>5, <1>6, <1>7 DEF NInv

\* A slot that is called back has the block, and the server is on.
LEMMA CalledFacts ==
  ASSUME NInv, NEW p \in Pcbs, NEW c \in Slots, Called(p, c)
  PROVE  conns[c].pcb = p /\ p # NULL /\ listener /\ owner[p] = <<"http", c>>
<1>1. conns[c].pcb = p /\ owner[p] = <<"http", c>>
  BY NowFacts DEF Called, Matched
<1> QED
  BY <1>1 DEF NInv, Stopped

\* A callback of a server that is on, which at most claims the CLI's output.
LEMMA CallbackStep ==
  ASSUME NInv, NEW w, Sound(w), TelnetKept(w), TermKept(w), Becomes(w), UNCHANGED <<telnet, cdc>>,
         listener, UNCHANGED <<listener, keepalives>>,
         event' = event, emitq' = "new" => emitq = "new" /\ emitter' = emitter
  PROVE  NInv'
<1>1. keepalives' \in Nat /\ (w.term_conn # 0 => keepalives' > 0)
  BY DEF NInv, Waiting, TermKept
<1>2. emitq' = "new" /\ ~event' /\ emitter' = "cdc" => emit_retry_pending
  BY DEF NInv, Waiting
<1>3. emitq' = "new" /\ ~event' /\ emitter' = "http" /\ w.term_conn # 0
        => Awake(w, w.conns[w.term_conn].pcb)
  BY DEF NInv, Waiting, TermKept
<1> QED
  BY <1>1, <1>2, <1>3, WebStep

\* A record w0 that differs from the state in the slots cs and their blocks.
OutsideOf(w0, cs) ==
  /\ \A c \in Slots : w0.conns[c].pcb = conns[c].pcb
  /\ \A c \in Slots \ cs : w0.conns[c] = conns[c]
  /\ w0.owner = owner /\ w0.term_conn \in {0, term_conn}
  /\ \A p \in Pcbs : (\A c \in cs : conns[c].pcb # p) => (Awake(w0, p) <=> Woken(p))

LEMMA CloseKeeps ==
  ASSUME NInv, NEW cs \in SUBSET Slots, NEW w0, SoundBut(w0, cs), OutsideOf(w0, cs)
  PROVE  LET v == conn_close(w0, cs) IN
         Sound(v) /\ TelnetKept(v) /\ TermKept(v) /\ Closes(w0, cs, v)
<1> DEFINE v == conn_close(w0, cs)
<1>0. /\ v \in World /\ Sound(v) /\ Closes(w0, cs, v)
      /\ \A p \in Pcbs : IF \E c \in cs : w0.conns[c].pcb = p
                         THEN v.owner[p] = Nobody
                         ELSE v.owner[p] = w0.owner[p] /\ (Awake(v, p) <=> Awake(w0, p))
  BY CloseFacts, CloseSound
<1> HIDE DEF v
<1>1. /\ \A c \in Slots : IF c \in cs
           THEN v.conns[c].pcb = NULL /\ v.conns[c].state = "IDLE"
           ELSE v.conns[c] = conns[c]
      /\ v.term_conn = IF w0.term_conn \in cs THEN 0 ELSE w0.term_conn
      /\ \A p \in Pcbs : IF \E c \in cs : conns[c].pcb = p
                         THEN v.owner[p] = Nobody
                         ELSE v.owner[p] = owner[p] /\ (Awake(v, p) <=> Awake(w0, p))
  BY <1>0 DEF Closes, OutsideOf
<1>2. TelnetKept(v)
  <2> SUFFICES ASSUME NEW p \in Pcbs, NEW s \in Tel!Sessions
               PROVE  v.owner[p] = <<"telnet", s>> <=> owner[p] = <<"telnet", s>>
    BY DEF TelnetKept
  <2>1. CASE \E c \in cs : conns[c].pcb = p
    <3>1. PICK c \in cs : conns[c].pcb = p
      BY <2>1
    <3>2. owner[p] = <<"http", c>>
      BY <3>1, NowFacts DEF Matched
    <3>3. v.owner[p] = <<"none", 0>>
      BY <1>1, <2>1 DEF Nobody
    <3> QED
      BY <3>2, <3>3
  <2>2. CASE ~ \E c \in cs : conns[c].pcb = p
    BY <1>1, <2>2
  <2> QED
    BY <2>1, <2>2
<1>3. TermKept(v)
  <2> SUFFICES ASSUME v.term_conn # 0
               PROVE  v.term_conn = term_conn
                      /\ (Woken(conns[term_conn].pcb) => Awake(v, v.conns[term_conn].pcb))
    BY DEF TermKept
  <2>1. term_conn \in Slots \ cs /\ v.term_conn = term_conn
    BY <1>1, NowFacts DEF OutsideOf
  <2>2. conns[term_conn].pcb # NULL /\ conns[term_conn].pcb \in Pcbs
    <3>1. conns[term_conn].state = "SSE"
      BY <2>1, NowFacts, SlotNumbers DEF Bound
    <3> QED
      BY <2>1, <3>1, NowFacts DEF Matched, Conn
  <2>3. ~ \E c \in cs : conns[c].pcb = conns[term_conn].pcb
    BY <2>1, <2>2, NowFacts, OneSlot
  <2> QED
    BY <1>1, <2>1, <2>2, <2>3 DEF OutsideOf
<1> QED
  BY <1>0, <1>2, <1>3 DEF v

LEMMA CloseNow ==
  ASSUME NInv, NEW cs \in SUBSET Slots
  PROVE  LET v == conn_close(Now, cs) IN
         Sound(v) /\ TelnetKept(v) /\ TermKept(v) /\ Closes(Now, cs, v)
<1>1. SoundBut(Now, cs)
  BY NowFacts, SoundFacts
<1>2. OutsideOf(Now, cs)
  BY NowFacts DEF OutsideOf
<1> QED
  BY <1>1, <1>2, CloseKeeps

LEMMA AcceptStep ==
  ASSUME NInv, NEW p \in Pcbs, http_accept(p), UNCHANGED <<cdc, telnet>>
  PROVE  NInv'
<1> DEFINE c == Min(Freeable)
           w == [Now EXCEPT !.conns[c] = [pcb |-> p, state |-> "RECEIVING", left |-> 0],
                            !.owner[p] = <<"http", c>>]
           C == [conns EXCEPT ![c] = [pcb |-> p, state |-> "RECEIVING", left |-> 0]]
           O == [owner EXCEPT ![p] = <<"http", c>>]
<1>1. listener /\ owner[p] = Nobody /\ Becomes(w) /\ UNCHANGED <<listener, keepalives, cli>>
  BY DEF http_accept, IsFree
<1>2. c \in Slots /\ conns[c].state = "IDLE" /\ conns[c].pcb = NULL
  <2>1. Freeable \in SUBSET Nat /\ Freeable # {}
    BY SlotNumbers DEF Freeable, http_accept
  <2>2. c \in Freeable
    BY <2>1, MinFacts
  <2> QED
    BY <2>2, NowFacts DEF Freeable, Matched
<1>3. w = [Now EXCEPT !.conns = C, !.owner = O]
  BY NowFacts DEF Now
<1>4. C \in [Slots -> Conn] /\ O \in [Pcbs -> Owner] /\ C[c].pcb = p /\ C[c].state = "RECEIVING"
      /\ O[p] = <<"http", c>> /\ (\A d \in Slots \ {c} : C[d] = conns[d])
      /\ \A q \in Pcbs \ {p} : O[q] = owner[q]
  BY <1>2, NowFacts DEF Conn, Owner, HttpOwner
<1> HIDE DEF c, w, C, O
<1>5. w \in World /\ w.conns = C /\ w.owner = O /\ w.chan = chan /\ w.term_conn = term_conn
      /\ w.flight = flight /\ w.starved = starved
  BY <1>3, <1>4, NowFacts DEF World
<1>6. \A d \in Slots : conns[d].pcb # p
  BY <1>1, NowFacts DEF Matched, Nobody
<1>7. Matched(w)
  <2>1. ASSUME NEW q \in Pcbs, NEW d \in Slots
        PROVE  O[q] = <<"http", d>> <=> C[d].pcb = q
    <3>1. CASE q = p /\ d = c
      BY <1>4, <3>1
    <3>2. CASE q = p /\ d # c
      BY <1>4, <1>6, <3>2
    <3>3. CASE q # p /\ d = c
      <4>1. conns[d].pcb # q /\ O[q] = owner[q]
        BY <1>2, <1>4, <3>3
      <4> QED
        BY <1>4, <3>3, <4>1, NowFacts DEF Matched
    <3>4. CASE q # p /\ d # c
      BY <1>4, <3>4, NowFacts DEF Matched
    <3> QED
      BY <3>1, <3>2, <3>3, <3>4
  <2>2. \A d \in Slots : C[d].state = "IDLE" <=> C[d].pcb = NULL
    BY <1>4, NowFacts DEF Matched
  <2> QED
    BY <1>5, <2>1, <2>2 DEF Matched
<1>8. \A d \in Slots : conns[d].state = "SSE" => w.conns[d] = conns[d]
  BY <1>2, <1>4, <1>5
<1>9. Bound(w)
  <2>1. w.term_conn # 0 => w.conns[w.term_conn].state = "SSE"
    BY <1>5, <1>8, NowFacts DEF Bound
  <2>2. \A k \in Paths : w.chan[k] # NULL =>
          \E d \in Slots : w.conns[d].pcb = w.chan[k] /\ w.conns[d].state = "SSE"
                           /\ w.term_conn # d
    BY <1>5, <1>8, NowFacts DEF Bound
  <2> QED
    BY <1>5, <2>1, <2>2, NowFacts DEF Bound
<1>10. \A d \in Slots : Served(w, d)
  BY <1>4, <1>5, NowFacts DEF Served, Awake
<1>11. Sound(w)
  BY <1>5, <1>7, <1>9, <1>10 DEF Sound, SoundBut
<1>12. TelnetKept(w)
  BY <1>1, <1>4, <1>5 DEF TelnetKept, Nobody
<1>13. TermKept(w)
  BY <1>5, <1>8, NowFacts DEF Bound, TermKept, Awake, Woken
<1> QED
  BY <1>1, <1>11, <1>12, <1>13, CallbackStep DEF cli

\* A record that differs from the state in what is in flight or starved only, with
\* something to wake each response.
LEMMA FlightSound ==
  ASSUME NInv, NEW w \in World, w.conns = conns, w.chan = chan, w.owner = owner,
         w.term_conn = term_conn,
         \A c \in Slots : conns[c].state = "SENDING" => Awake(w, conns[c].pcb)
  PROVE  Sound(w) /\ TelnetKept(w)
<1>1. Matched(w) /\ Bound(w)
  BY NowFacts DEF Matched, Bound
<1>2. \A c \in Slots : Served(w, c)
  BY NowFacts DEF Served
<1> QED
  BY <1>1, <1>2 DEF Sound, SoundBut, TelnetKept

\* An acknowledgment changes what is in flight on its block.
LEMMA AckFacts ==
  ASSUME NInv, NEW p \in Pcbs, NEW rest \in 0 .. SND_BUF - 1
  PROVE  LET w == [Now EXCEPT !.flight[p] = rest] IN
         /\ w \in World /\ w.conns = conns /\ w.chan = chan /\ w.owner = owner
         /\ w.term_conn = term_conn /\ \A q \in Pcbs \ {p} : Awake(w, q) <=> Woken(q)
<1> DEFINE F == [flight EXCEPT ![p] = rest]
           w == [Now EXCEPT !.flight[p] = rest]
<1>1. w = [Now EXCEPT !.flight = F]
  BY NowFacts DEF Now
<1>2. F \in [Pcbs -> 0 .. SND_BUF] /\ \A q \in Pcbs \ {p} : F[q] = flight[q]
  BY NowFacts
<1> HIDE DEF w, F
<1>3. w \in World /\ w.conns = conns /\ w.chan = chan /\ w.owner = owner /\ w.flight = F
      /\ w.term_conn = term_conn /\ w.starved = starved
  BY <1>1, <1>2, NowFacts DEF World
<1> QED
  BY <1>2, <1>3 DEF w, Awake, Woken

\* A write to one of the connections.
LEMMA WriteNow ==
  ASSUME NInv, NEW p \in Pcbs, NEW granted \in BOOLEAN
  PROVE  LET v == tcp_write(Now, p, 1, granted) IN
         Sound(v) /\ TelnetKept(v) /\ TermKept(v) /\ v.conns = conns /\ v.term_conn = term_conn
<1> DEFINE v == tcp_write(Now, p, 1, granted)
<1>1. /\ v \in World /\ v.conns = conns /\ v.chan = chan /\ v.owner = owner
      /\ v.term_conn = term_conn
      /\ Awake(v, p) /\ \A q \in Pcbs \ {p} : Awake(v, q) <=> Awake(Now, q)
  BY NowFacts, WriteFacts
<1> HIDE DEF v
<1>2. \A c \in Slots : conns[c].state \in {"SENDING", "SSE"} => conns[c].pcb \in Pcbs
  BY NowFacts DEF Matched, Conn
<1>3. \A c \in Slots : conns[c].state = "SENDING" => Awake(v, conns[c].pcb)
  BY <1>1, <1>2, NowFacts DEF Served
<1>4. Sound(v) /\ TelnetKept(v)
  BY <1>1, <1>3, FlightSound
<1>5. TermKept(v)
  BY <1>1, <1>2, NowFacts DEF TermKept, Bound
<1> QED
  BY <1>1, <1>4, <1>5 DEF v

\* The loop of send_chunk() either writes all that is left or leaves something to
\* wake the response: what it wrote, what filled its connection, or a refusal.
LEMMA SentFacts ==
  ASSUME NEW w \in World, Matched(w), NEW c \in Slots, w.conns[c].state = "SENDING",
         NEW granted \in BOOLEAN
  PROVE  LET v == Sent(w, c, granted)
             p == w.conns[c].pcb
         IN  /\ p \in Pcbs /\ v \in World /\ v.chan = w.chan /\ v.owner = w.owner
             /\ v.term_conn = w.term_conn
             /\ \A d \in Slots : /\ v.conns[d].pcb = w.conns[d].pcb
                                 /\ v.conns[d].state = w.conns[d].state
                                 /\ d # c => v.conns[d] = w.conns[d]
             /\ Awake(v, p) \/ v.conns[c].left = 0
             /\ \A q \in Pcbs \ {p} : Awake(v, q) <=> Awake(w, q)
<1> DEFINE v == Sent(w, c, granted)
           p == w.conns[c].pcb
           n == Chunk(w, c)
<1>1. p \in Pcbs /\ w.conns[c].left \in Nat /\ w.flight[p] \in 0 .. SND_BUF
  BY DEF World, Conn, Matched
<1>2. Room(w, p) \in Nat
  BY <1>1 DEF Room
<1>3. n \in {w.conns[c].left, Room(w, p)} /\ n \in Nat /\ n <= w.conns[c].left /\ n <= Room(w, p)
  <2>1. {w.conns[c].left, Room(w, p)} \in SUBSET Nat
    BY <1>1, <1>2
  <2> QED
    BY <2>1, MinFacts DEF Chunk
<1>4. CASE n = 0
  <2>1. v = w
    BY <1>4 DEF Sent
  <2>2. w.conns[c].left = 0 \/ w.flight[p] > 0
    BY <1>1, <1>3, <1>4 DEF Room
  <2> QED
    BY <1>1, <2>1, <2>2 DEF Awake
<1>5. CASE n > 0
  <2> DEFINE u == tcp_write(w, p, n, granted)
  <2>1. /\ u \in World /\ u.conns = w.conns /\ u.chan = w.chan /\ u.owner = w.owner
        /\ u.term_conn = w.term_conn
        /\ Awake(u, p) /\ \A q \in Pcbs \ {p} : Awake(u, q) <=> Awake(w, q)
    BY <1>1, <1>3, <1>5, WriteFacts
  <2>2. CASE ~granted
    <3>1. v = u
      <4>1. granted = FALSE
        BY <2>2
      <4>2. n # 0
        BY <1>3, <1>5
      <4>3. v = tcp_write(w, p, n, FALSE)
        BY <2>2, <4>2, Zenon DEF Sent
      <4> QED
        BY <4>1, <4>3, Zenon
    <3> HIDE DEF u, v
    <3> QED
      BY <1>1, <2>1, <3>1 DEF v
  <2>3. CASE granted
    <3> DEFINE C == [w.conns EXCEPT ![c].left = w.conns[c].left - n]
    <3>1. v = [u EXCEPT !.conns[c].left = w.conns[c].left - n]
      BY <1>5, <2>3 DEF Sent, Written
    <3> HIDE DEF u, v
    <3>2. v = [u EXCEPT !.conns = C]
      BY <2>1, <3>1 DEF World
    <3>3. w.conns[c].left - n \in Nat
      BY <1>1, <1>3
    <3> HIDE DEF n
    <3>4. C \in [Slots -> Conn]
          /\ \A d \in Slots : /\ C[d].pcb = w.conns[d].pcb /\ C[d].state = w.conns[d].state
                              /\ d # c => C[d] = w.conns[d]
      BY <3>3 DEF World, Conn
    <3> HIDE DEF C
    <3>5. v \in World /\ v.conns = C /\ v.chan = u.chan /\ v.owner = u.owner
          /\ v.term_conn = u.term_conn /\ v.flight = u.flight /\ v.starved = u.starved
      BY <2>1, <3>2, <3>4 DEF World
    <3>6. \A q : Awake(v, q) <=> Awake(u, q)
      BY <3>5 DEF Awake
    <3> QED
      BY <1>1, <2>1, <3>4, <3>5, <3>6 DEF v
  <2> QED
    BY <2>2, <2>3
<1> QED
  BY <1>3, <1>4, <1>5

\* A response, or what is left of one, is sent, from a record w0 that differs from
\* the state in its slot and on its block.
LEMMA SendFacts ==
  ASSUME NInv, NEW p \in Pcbs, NEW c \in Slots, Called(p, c),
         conns[c].state \in {"RECEIVING", "SENDING"}, NEW granted \in BOOLEAN,
         NEW w0 \in World, w0.conns[c].state = "SENDING",
         \A d \in Slots : w0.conns[d].pcb = conns[d].pcb /\ (d # c => w0.conns[d] = conns[d]),
         w0.chan = chan, w0.owner = owner, w0.term_conn = term_conn,
         \A q \in Pcbs \ {p} : Awake(w0, q) <=> Woken(q)
  PROVE  LET v == send_chunk(w0, c, granted) IN Sound(v) /\ TelnetKept(v) /\ TermKept(v)
<1> DEFINE u == Sent(w0, c, granted)
           v == send_chunk(w0, c, granted)
<1>1. conns[c].pcb = p /\ p # NULL
  BY CalledFacts
<1>2. Matched(w0)
  BY <1>1, NowFacts DEF Matched
<1>3. /\ u \in World /\ u.chan = chan /\ u.owner = owner /\ u.term_conn = term_conn
      /\ \A d \in Slots : u.conns[d].pcb = conns[d].pcb /\ (d # c => u.conns[d] = conns[d])
      /\ u.conns[c].state = "SENDING"
      /\ Awake(u, p) \/ u.conns[c].left = 0
      /\ \A q \in Pcbs \ {p} : Awake(u, q) <=> Woken(q)
  <2>1. w0.conns[c].pcb = p
    BY <1>1
  <2>2. /\ u \in World /\ u.chan = w0.chan /\ u.owner = w0.owner /\ u.term_conn = w0.term_conn
        /\ \A d \in Slots : /\ u.conns[d].pcb = w0.conns[d].pcb
                            /\ u.conns[d].state = w0.conns[d].state
                            /\ d # c => u.conns[d] = w0.conns[d]
        /\ Awake(u, p) \/ u.conns[c].left = 0
        /\ \A q \in Pcbs \ {p} : Awake(u, q) <=> Awake(w0, q)
    BY <1>2, <2>1, SentFacts
  <2> HIDE DEF u
  <2>3. ASSUME NEW d \in Slots
        PROVE  u.conns[d].pcb = conns[d].pcb /\ (d # c => u.conns[d] = conns[d])
    <3>1. w0.conns[d].pcb = conns[d].pcb /\ (d # c => w0.conns[d] = conns[d])
      OBVIOUS
    <3>2. u.conns[d].pcb = w0.conns[d].pcb /\ (d # c => u.conns[d] = w0.conns[d])
      BY <2>2
    <3> QED
      BY <3>1, <3>2
  <2>4. \A q \in Pcbs \ {p} : Awake(u, q) <=> Woken(q)
    BY <2>2
  <2>5. u.conns[c].state = "SENDING"
    BY <2>2
  <2> QED
    BY <2>2, <2>3, <2>4, <2>5
<1>4. v = IF u.conns[c].left = 0 THEN conn_close(u, {c}) ELSE u
  BY DEF send_chunk
<1> HIDE DEF u, v
<1>5. \A d \in Slots : conns[d].state = "SSE" => d # c /\ u.conns[d] = conns[d]
  BY <1>3
<1>6. Matched(u)
  BY <1>1, <1>3, NowFacts DEF Matched
<1>7. Bound(u)
  <2>1. u.term_conn # 0 => u.conns[u.term_conn].state = "SSE"
    BY <1>3, <1>5, NowFacts DEF Bound
  <2>2. \A k \in Paths : u.chan[k] # NULL =>
          \E d \in Slots : u.conns[d].pcb = u.chan[k] /\ u.conns[d].state = "SSE"
                           /\ u.term_conn # d
    BY <1>3, <1>5, NowFacts DEF Bound
  <2> QED
    BY <1>3, <2>1, <2>2, NowFacts DEF Bound
<1>8. ASSUME NEW d \in Slots \ {c}
      PROVE  Served(u, d)
  <2>1. conns[d].state = "SENDING" => conns[d].pcb \in Pcbs \ {p}
    BY <1>1, NowFacts, OneSlot DEF Matched, Conn
  <2> QED
    BY <1>3, <2>1, NowFacts DEF Served
<1>9. SoundBut(u, {c})
  BY <1>3, <1>6, <1>7, <1>8 DEF SoundBut
<1>10. CASE u.conns[c].left = 0
  <2>1. v = conn_close(u, {c}) /\ {c} \in SUBSET Slots
    BY <1>4, <1>10
  <2>2. OutsideOf(u, {c})
    BY <1>1, <1>3 DEF OutsideOf
  <2>3. LET z == conn_close(u, {c}) IN Sound(z) /\ TelnetKept(z) /\ TermKept(z)
    BY <1>9, <2>1, <2>2, CloseKeeps
  <2> QED
    BY <2>1, <2>3 DEF v
<1>11. CASE u.conns[c].left # 0
  <2>1. v = u /\ Served(u, c)
    BY <1>1, <1>3, <1>4, <1>11 DEF Served
  <2>2. Sound(u)
    BY <1>3, <1>6, <1>7, <1>8, <2>1 DEF Sound, SoundBut
  <2>3. TelnetKept(u)
    BY <1>3 DEF TelnetKept
  <2>4. TermKept(u)
    <3> SUFFICES ASSUME term_conn # 0
                 PROVE  Woken(conns[term_conn].pcb) => Awake(u, u.conns[term_conn].pcb)
      BY <1>3 DEF TermKept
    <3>1. term_conn \in Slots /\ conns[term_conn].state = "SSE"
      BY NowFacts DEF Bound
    <3>2. conns[term_conn].pcb \in Pcbs \ {p} /\ term_conn # c
      BY <1>1, <3>1, NowFacts, OneSlot DEF Matched, Conn
    <3> QED
      BY <1>3, <3>1, <3>2
  <2> QED
    BY <2>1, <2>2, <2>3, <2>4 DEF v
<1> QED
  BY <1>10, <1>11

LEMMA RecvNothingStep ==
  ASSUME NInv, NEW p \in Pcbs, NEW c \in Slots, RecvNothing(p, c), UNCHANGED <<cdc, telnet>>
  PROVE  NInv'
<1> DEFINE v == conn_close(Now, {c})
<1>1. Sound(v) /\ TelnetKept(v) /\ TermKept(v)
  BY CloseNow
<1>2. listener /\ Becomes(v) /\ UNCHANGED <<listener, keepalives, cli>>
  BY CalledFacts DEF RecvNothing
<1> HIDE DEF v
<1> QED
  BY <1>1, <1>2, CallbackStep DEF cli

LEMMA ErrStep ==
  ASSUME NInv, NEW p \in Pcbs, NEW c \in Slots, http_err(p, c), UNCHANGED <<cdc, telnet>>
  PROVE  NInv'
<1> DEFINE v == conn_close(Now, {c})
<1>1. Sound(v) /\ TelnetKept(v) /\ TermKept(v)
  BY CloseNow
<1>2. listener /\ conns[c].pcb = p /\ p # NULL /\ UNCHANGED <<listener, keepalives, cli>>
      /\ Becomes(Gone(conn_free(clear_sse_for_conn(Now, {c}), {c}), {p}))
  BY CalledFacts DEF http_err
<1>3. Open(Now, {c}) = {c} /\ BlocksOf(Now, {c}) = {p}
  BY <1>2, NowFacts DEF Open, BlocksOf
<1>4. Becomes(v)
  BY <1>2, <1>3 DEF conn_close
<1> HIDE DEF v
<1> QED
  BY <1>1, <1>2, <1>4, CallbackStep DEF cli

LEMMA ResponseStep ==
  ASSUME NInv, NEW p \in Pcbs, NEW c \in Slots, NEW granted \in BOOLEAN,
         RecvTermIn(p, c, granted) \/ \E n \in Lengths : RecvRoute(p, c, n, granted),
         UNCHANGED <<cdc, telnet>>
  PROVE  NInv'
<1>1. PICK n \in Nat :
        /\ Called(p, c) /\ conns[c].state = "RECEIVING" /\ Becomes(Respond(Now, c, n, granted))
        /\ UNCHANGED <<listener, keepalives>>
        /\ event' = event /\ (emitq' = "new" => emitq = "new" /\ emitter' = emitter)
  <2>1. CASE RecvTermIn(p, c, granted)
    BY <2>1 DEF RecvTermIn, Requested, Claimed
  <2>2. ASSUME NEW n \in Lengths, RecvRoute(p, c, n, granted)
        PROVE  /\ n \in Nat /\ Called(p, c) /\ conns[c].state = "RECEIVING"
               /\ Becomes(Respond(Now, c, n, granted)) /\ UNCHANGED <<listener, keepalives, cli>>
    BY <2>2 DEF RecvRoute, Requested
  <2> QED
    BY <2>1, <2>2 DEF cli
<1> DEFINE w == [Now EXCEPT !.conns[c].state = "SENDING", !.conns[c].left = n]
           v == send_chunk(w, c, granted)
           C == [conns EXCEPT ![c].state = "SENDING", ![c].left = n]
<1>2. w = [Now EXCEPT !.conns = C]
  BY NowFacts DEF Now, Conn
<1>3. C \in [Slots -> Conn] /\ C[c].state = "SENDING"
      /\ \A d \in Slots : C[d].pcb = conns[d].pcb /\ (d # c => C[d] = conns[d])
  BY <1>1, NowFacts DEF Conn
<1>4. Becomes(v)
  BY <1>1 DEF Respond
<1> HIDE DEF w, C
<1>5. w \in World /\ w.conns = C /\ w.chan = chan /\ w.owner = owner /\ w.term_conn = term_conn
      /\ w.flight = flight /\ w.starved = starved
  BY <1>2, <1>3, NowFacts DEF World
<1>6. \A q \in Pcbs \ {p} : Awake(w, q) <=> Woken(q)
  BY <1>5 DEF Awake, Woken
<1>7. listener
  BY <1>1, CalledFacts
<1>8. Sound(v) /\ TelnetKept(v) /\ TermKept(v)
  BY <1>1, <1>3, <1>5, <1>6, SendFacts
<1> HIDE DEF v
<1> QED
  BY <1>1, <1>4, <1>7, <1>8, CallbackStep

\* Output for the terminal, from a record w that differs from the state on the
\* terminal's block.
LEMMA SseEmits ==
  ASSUME NInv, NEW granted \in BOOLEAN, NEW w \in World, w.conns = conns, w.chan = chan,
         w.owner = owner, w.term_conn = term_conn,
         \A q \in Pcbs : (term_conn # 0 => q # conns[term_conn].pcb) => (Awake(w, q) <=> Woken(q)),
         http_sse_emit(w, granted), UNCHANGED <<telnet, cdc, listener, keepalives>>,
         emitq' = "new" /\ ~event' /\ emitter' = "cdc" => emit_retry_pending
  PROVE  NInv'
<1> DEFINE p == conns[term_conn].pcb
<1>1. \A c \in Slots : conns[c].state \in {"SENDING", "SSE"} => conns[c].pcb \in Pcbs
  BY NowFacts DEF Matched, Conn
<1>2. ~listener' => \A c \in Slots : conns[c].pcb = NULL
  BY DEF NInv, Stopped
<1>3. keepalives' \in Nat /\ (term_conn # 0 => keepalives' > 0)
  BY DEF NInv, Waiting
<1>4. \A c \in Slots : conns[c].state = "SENDING" /\ term_conn # 0 => conns[c].pcb # p
  BY <1>1, NowFacts, OneSlot DEF Bound
<1>5. \A c \in Slots : conns[c].state = "SENDING" => Awake(w, conns[c].pcb)
  BY <1>1, <1>4, NowFacts DEF Served
<1>6. Sound(w) /\ TelnetKept(w)
  BY <1>5, FlightSound
<1>7. CASE term_conn = 0 \/ emitq = "empty" \/ Room(w, p) = 0
  <2>1. Becomes(w) /\ emitq' = emitq
    BY <1>7 DEF http_sse_emit
  <2>2. emitq' = "new" /\ term_conn # 0 => Awake(w, p)
    <3> SUFFICES ASSUME Room(w, p) = 0, term_conn # 0
                 PROVE  Awake(w, p)
      BY <1>7, <2>1
    <3>1. p \in Pcbs
      BY <1>1, NowFacts DEF Bound
    <3>2. w.flight[p] \in 0 .. SND_BUF
      BY <3>1 DEF World
    <3> QED
      BY <3>2 DEF Room, Awake
  <2> QED
    BY <1>2, <1>3, <1>6, <2>1, <2>2, WebStep
<1>8. CASE term_conn # 0 /\ emitq # "empty" /\ Room(w, p) # 0
  <2> DEFINE v == tcp_write(w, p, 1, granted)
  <2>1. Becomes(v)
    BY <1>8 DEF http_sse_emit
  <2>2. p \in Pcbs
    BY <1>1, <1>8, NowFacts DEF Bound
  <2> HIDE DEF p
  <2>3. /\ v \in World /\ v.conns = conns /\ v.chan = chan /\ v.owner = owner
        /\ v.term_conn = term_conn
        /\ Awake(v, p) /\ \A q \in Pcbs \ {p} : Awake(v, q) <=> Awake(w, q)
    BY <2>2, WriteFacts
  <2> HIDE DEF v
  <2>4. \A c \in Slots : conns[c].state = "SENDING" => Awake(v, conns[c].pcb)
    BY <1>1, <1>5, <2>3
  <2>5. Sound(v) /\ TelnetKept(v)
    BY <2>3, <2>4, FlightSound
  <2> QED
    BY <1>2, <1>3, <2>1, <2>3, <2>5, WebStep DEF p
<1> QED
  BY <1>7, <1>8

\* The acknowledgment: the rest is sent, or the terminal drains the CLI's output,
\* or nothing waited for it.
LEMMA SentStep ==
  ASSUME NInv, NEW p \in Pcbs, NEW c \in Slots, NEW rest \in 0 .. SND_BUF - 1,
         NEW granted \in BOOLEAN, http_sent(p, c, rest, granted), UNCHANGED <<cdc, telnet>>
  PROVE  NInv'
<1> DEFINE w == [Now EXCEPT !.flight[p] = rest]
<1>1. /\ Called(p, c) /\ UNCHANGED <<listener, keepalives, event, emitter>>
      /\ CASE conns[c].state = "SENDING" -> Becomes(send_chunk(w, c, granted)) /\ UNCHANGED emitq
           [] c = term_conn              -> http_sse_emit(w, granted)
           [] OTHER                      -> Becomes(w) /\ UNCHANGED emitq
  BY DEF http_sent
<1>2. conns[c].pcb = p /\ listener /\ p # NULL
  BY <1>1, CalledFacts
<1>3. /\ w \in World /\ w.conns = conns /\ w.chan = chan /\ w.owner = owner
      /\ w.term_conn = term_conn /\ \A q \in Pcbs \ {p} : Awake(w, q) <=> Woken(q)
  BY AckFacts
<1> HIDE DEF w
<1>4. CASE conns[c].state = "SENDING"
  <2> DEFINE v == send_chunk(w, c, granted)
  <2>1. Becomes(v) /\ UNCHANGED emitq
    <3>1. c # term_conn
      BY <1>4, NowFacts, SlotNumbers DEF Bound
    <3> QED
      BY <1>1, <1>4, <3>1
  <2>2. Sound(v) /\ TelnetKept(v) /\ TermKept(v)
    BY <1>1, <1>3, <1>4, SendFacts
  <2> HIDE DEF v
  <2> QED
    BY <1>1, <1>2, <2>1, <2>2, CallbackStep
<1>5. CASE conns[c].state # "SENDING" /\ c = term_conn
  <2>1. http_sse_emit(w, granted)
    BY <1>1, <1>5
  <2>2. emitq' = "new" /\ ~event' /\ emitter' = "cdc" => emit_retry_pending
    <3>1. emitq' = "new" => emitq = "new"
      BY <2>1 DEF http_sse_emit
    <3> QED
      BY <1>1, <3>1 DEF NInv, Waiting
  <2>3. \A q \in Pcbs : (term_conn # 0 => q # conns[term_conn].pcb) => (Awake(w, q) <=> Woken(q))
    BY <1>2, <1>3, <1>5, SlotNumbers
  <2> QED
    BY <1>1, <1>3, <2>1, <2>2, <2>3, SseEmits
<1>6. CASE conns[c].state # "SENDING" /\ c # term_conn
  <2>1. Becomes(w) /\ UNCHANGED emitq
    BY <1>1, <1>6
  <2>2. \A d \in Slots : conns[d].state \in {"SENDING", "SSE"} => conns[d].pcb \in Pcbs
    BY NowFacts DEF Matched, Conn
  <2>3. \A d \in Slots : conns[d].state = "SENDING" => conns[d].pcb # p
    BY <1>2, <1>6, NowFacts, OneSlot
  <2>4. Sound(w) /\ TelnetKept(w)
    BY <1>3, <2>2, <2>3, NowFacts, FlightSound DEF Served
  <2>5. TermKept(w)
    <3> SUFFICES ASSUME term_conn # 0
                 PROVE  Awake(w, conns[term_conn].pcb) <=> Woken(conns[term_conn].pcb)
      BY <1>3 DEF TermKept
    <3>1. term_conn \in Slots /\ conns[term_conn].state = "SSE"
      BY NowFacts DEF Bound
    <3>2. conns[term_conn].pcb \in Pcbs \ {p}
      BY <1>2, <1>6, <2>2, <3>1, NowFacts, OneSlot
    <3> QED
      BY <1>3, <3>2
  <2> QED
    BY <1>1, <1>2, <2>1, <2>4, <2>5, CallbackStep
<1> QED
  BY <1>4, <1>5, <1>6

\* A new terminal closes the one before it.
LEMMA TermStreamStep ==
  ASSUME NInv, NEW p \in Pcbs, NEW c \in Slots, NEW granted \in BOOLEAN,
         RecvTermStream(p, c, granted), UNCHANGED <<cdc, telnet>>
  PROVE  NInv'
<1> DEFINE cs == {term_conn} \ {0}
           w  == conn_close(Now, cs)
           v  == [Streams(w, c, granted) EXCEPT !.term_conn = c]
<1>1. /\ Called(p, c) /\ conns[c].state = "RECEIVING" /\ Becomes(v)
      /\ keepalives' = keepalives + 1 /\ UNCHANGED <<listener, cli>>
  BY DEF RecvTermStream, Requested
<1>2. cs \in SUBSET Slots /\ c \notin cs
  BY <1>1, NowFacts DEF Bound
<1>3. Sound(w) /\ TelnetKept(w) /\ w.term_conn = 0 /\ w.conns[c] = conns[c]
  <2> HIDE DEF w, cs
  <2>1. Sound(w) /\ TelnetKept(w) /\ Closes(Now, cs, w)
    BY <1>2, CloseNow DEF w
  <2>2. w.conns[c] = conns[c] /\ w.term_conn = IF term_conn \in cs THEN 0 ELSE term_conn
    BY <1>2, <2>1, NowFacts DEF Closes
  <2> QED
    BY <2>1, <2>2, NowFacts DEF cs
<1> HIDE DEF w, cs
<1>4. Sound(v) /\ v.term_conn = c /\ Awake(v, v.conns[c].pcb) /\ v.owner = w.owner
  BY <1>1, <1>3, TerminalSound
<1> HIDE DEF v
<1>5. TelnetKept(v)
  BY <1>3, <1>4 DEF TelnetKept
<1>6. listener
  BY <1>1, CalledFacts
<1>7. keepalives' \in Nat /\ keepalives' > 0
  BY <1>1 DEF NInv, Waiting
<1>8. emitq' = "new" /\ ~event' /\ emitter' = "cdc" => emit_retry_pending
  BY <1>1 DEF NInv, Waiting, cli
<1> QED
  BY <1>1, <1>4, <1>5, <1>6, <1>7, <1>8, WebStep

\* A channel's new stream closes the one before it.
LEMMA StreamStep ==
  ASSUME NInv, NEW p \in Pcbs, NEW c \in Slots, NEW k \in Paths, NEW granted \in BOOLEAN,
         RecvStream(p, c, k, granted), UNCHANGED <<cdc, telnet>>
  PROVE  NInv'
<1> DEFINE w == Evicted(k)
           b == conns[c].pcb
           v == [Streams(w, c, granted) EXCEPT !.chan[k] = b]
<1>1. /\ Called(p, c) /\ conns[c].state = "RECEIVING" /\ Becomes(v)
      /\ UNCHANGED <<listener, keepalives, cli>>
  BY DEF RecvStream, Requested
<1>2. /\ Sound(w) /\ TelnetKept(w) /\ TermKept(w) /\ w.chan[k] = NULL /\ w.conns[c] = conns[c]
      /\ \A d \in Slots : w.term_conn = d => w.conns[d].pcb = conns[d].pcb
  <2>1. CASE chan[k] = NULL
    <3>1. w = Now
      BY <2>1 DEF Evicted
    <3> QED
      BY <2>1, <3>1, NowFacts DEF TelnetKept, TermKept
  <2>2. CASE chan[k] # NULL
    <3>1. PICK d \in Slots : conns[d].pcb = chan[k] /\ conns[d].state = "SSE" /\ term_conn # d
      BY <2>2, NowFacts DEF Bound
    <3>2. Holding(chan[k]) = {d}
      BY <2>2, <3>1, NowFacts, OneSlot DEF Holding
    <3>3. Min({d}) = d
      <4>1. {d} \in SUBSET Nat /\ d \in {d} /\ d <= d
        BY SlotNumbers
      <4> QED
        BY <4>1, MinIs
    <3>4. w = conn_close(Now, {d}) /\ c # d /\ {d} \in SUBSET Slots
      BY <1>1, <2>2, <3>1, <3>2, <3>3 DEF Evicted
    <3> HIDE DEF w
    <3>5. Sound(w) /\ TelnetKept(w) /\ TermKept(w) /\ Closes(Now, {d}, w)
      BY <3>4, CloseNow
    <3>6. /\ \A e \in Slots : e # d => w.conns[e] = conns[e]
          /\ w.term_conn = IF term_conn \in {d} THEN 0 ELSE term_conn
          /\ w.chan[k] = NULL
      BY <3>1, <3>5, NowFacts DEF Closes
    <3> QED
      BY <3>1, <3>4, <3>5, <3>6, SlotNumbers
  <2> QED
    BY <2>1, <2>2
<1> HIDE DEF w
<1>3. /\ Sound(v) /\ v.term_conn = w.term_conn /\ v.owner = w.owner
      /\ \A d \in Slots : v.conns[d].pcb = w.conns[d].pcb
      /\ \A q \in Pcbs : Awake(w, q) => Awake(v, q)
  BY <1>1, <1>2, ChannelSound
<1> HIDE DEF v
<1>4. TelnetKept(v)
  BY <1>2, <1>3 DEF TelnetKept
<1>5. TermKept(v)
  <2> SUFFICES ASSUME v.term_conn # 0
               PROVE  v.term_conn = term_conn
                      /\ (Woken(conns[term_conn].pcb) => Awake(v, v.conns[term_conn].pcb))
    BY DEF TermKept
  <2>1. w.term_conn = term_conn /\ (Woken(conns[term_conn].pcb) => Awake(w, w.conns[term_conn].pcb))
    BY <1>2, <1>3 DEF TermKept
  <2>2. term_conn \in Slots /\ w.conns[term_conn].pcb = conns[term_conn].pcb
        /\ v.conns[term_conn].pcb = conns[term_conn].pcb
    BY <1>2, <1>3, <2>1, NowFacts
  <2>3. conns[term_conn].pcb \in Pcbs
    <3>1. conns[term_conn].state = "SSE"
      BY <1>3, <2>1, NowFacts DEF Bound
    <3> QED
      BY <2>2, <3>1, NowFacts DEF Matched, Conn
  <2> QED
    BY <1>3, <2>1, <2>2, <2>3
<1>6. listener
  BY <1>1, CalledFacts
<1> QED
  BY <1>1, <1>3, <1>4, <1>5, <1>6, CallbackStep DEF cli

LEMMA PushStep ==
  ASSUME NInv, NEW k \in Paths, NEW granted \in BOOLEAN, http_sse_push(k, granted),
         UNCHANGED <<cdc, telnet>>
  PROVE  NInv'
<1> DEFINE v == tcp_write(Now, chan[k], 1, granted)
<1>1. chan[k] \in Pcbs /\ Becomes(v) /\ UNCHANGED <<listener, keepalives, cli>>
  BY NowFacts DEF http_sse_push
<1>2. Sound(v) /\ TelnetKept(v) /\ TermKept(v)
  BY <1>1, WriteNow
<1> HIDE DEF v
<1>3. listener
  BY <1>1, NowFacts DEF NInv, Stopped, Bound, http_sse_push
<1> QED
  BY <1>1, <1>2, <1>3, CallbackStep DEF cli

LEMMA KeepaliveStep ==
  ASSUME NInv, NEW granted \in BOOLEAN, http_sse_keepalive(granted), UNCHANGED <<cdc, telnet>>
  PROVE  NInv'
<1>1. UNCHANGED <<listener, cli>> /\ keepalives > 0
  BY DEF http_sse_keepalive
<1>2. CASE term_conn = 0
  <2>1. keepalives' = keepalives - 1 /\ Becomes(Now)
    BY <1>2 DEF http_sse_keepalive
  <2>2. Sound(Now) /\ TelnetKept(Now) /\ Now.term_conn = 0 /\ Now.conns = conns
    BY <1>2, NowFacts DEF TelnetKept
  <2>3. ~listener' => \A c \in Slots : conns[c].pcb = NULL
    BY <1>1 DEF NInv, Stopped
  <2>4. keepalives' \in Nat
    BY <1>1, <2>1 DEF NInv, Waiting
  <2>5. emitq' = "new" /\ ~event' /\ emitter' = "cdc" => emit_retry_pending
    BY <1>1 DEF NInv, Waiting, cli
  <2> QED
    BY <2>1, <2>2, <2>3, <2>4, <2>5, WebStep
<1>3. CASE term_conn # 0
  <2> DEFINE b == conns[term_conn].pcb
             v == tcp_write(Now, b, 1, granted)
  <2>1. Becomes(v) /\ UNCHANGED keepalives
    BY <1>3 DEF http_sse_keepalive
  <2>2. term_conn \in Slots /\ b \in Pcbs
    <3>1. term_conn \in Slots /\ conns[term_conn].state = "SSE"
      BY <1>3, NowFacts DEF Bound
    <3> QED
      BY <3>1, NowFacts DEF Matched, Conn
  <2>3. Sound(v) /\ TelnetKept(v) /\ TermKept(v)
    BY <2>2, WriteNow
  <2> HIDE DEF v
  <2>4. listener
    BY <2>2 DEF NInv, Stopped
  <2> QED
    BY <1>1, <2>1, <2>3, <2>4, CallbackStep DEF cli
<1> QED
  BY <1>2, <1>3

LEMMA StartStep ==
  ASSUME NInv, http_server_start, UNCHANGED <<cdc, telnet>>
  PROVE  NInv'
<1>1. listener' = TRUE /\ Becomes(Now) /\ UNCHANGED <<keepalives, cli>>
  BY DEF http_server_start
<1>2. Sound(Now) /\ TelnetKept(Now) /\ Now.term_conn = term_conn /\ Now.conns = conns
  BY NowFacts DEF TelnetKept
<1>3. keepalives' \in Nat /\ (term_conn # 0 => keepalives' > 0)
  BY <1>1 DEF NInv, Waiting
<1>4. emitq' = "new" /\ ~event' /\ emitter' = "cdc" => emit_retry_pending
  BY <1>1 DEF NInv, Waiting, cli
<1>5. emitq' = "new" /\ ~event' /\ emitter' = "http" /\ term_conn # 0
        => Awake(Now, conns[term_conn].pcb)
  BY <1>1, NowFacts DEF NInv, Waiting, cli
<1> QED
  BY <1>1, <1>2, <1>3, <1>4, <1>5, WebStep

\* Streams are forgotten first, then every connection is closed.
LEMMA StopStep ==
  ASSUME NInv, http_server_stop, UNCHANGED <<cdc, telnet>>
  PROVE  NInv'
<1> DEFINE w0 == [Now EXCEPT !.term_conn = 0, !.chan = [k \in Paths |-> NULL]]
           cs == Slots \ Freeable
           v  == conn_close(w0, cs)
<1>1. Becomes(v) /\ listener' = FALSE /\ UNCHANGED <<keepalives, cli>>
  BY DEF http_server_stop
<1>2. /\ w0 \in World /\ w0.conns = conns /\ w0.owner = owner /\ w0.flight = flight
      /\ w0.starved = starved
      /\ w0.term_conn = 0 /\ w0.chan = [k \in Paths |-> NULL]
  <2> DEFINE K == [k \in Paths |-> NULL]
  <2>1. K \in [Paths -> Pcbs \cup {NULL}]
    OBVIOUS
  <2>2. w0 = [Now EXCEPT !.term_conn = 0, !.chan = K]
    OBVIOUS
  <2> HIDE DEF K, w0
  <2>3. /\ w0 \in World /\ w0.conns = conns /\ w0.owner = owner /\ w0.flight = flight
        /\ w0.starved = starved /\ w0.term_conn = 0 /\ w0.chan = K
    BY <2>1, <2>2, NowFacts DEF World
  <2> QED
    BY <2>3 DEF K
<1> HIDE DEF w0
<1>3. cs \in SUBSET Slots /\ \A c \in Slots : c \in cs <=> conns[c].state # "IDLE"
  BY DEF Freeable
<1> HIDE DEF cs
<1>4. SoundBut(w0, cs)
  <2>1. Matched(w0) /\ Bound(w0)
    BY <1>2, NowFacts DEF Matched, Bound
  <2>2. \A c \in Slots \ cs : Served(w0, c)
    BY <1>2, <1>3 DEF Served
  <2> QED
    BY <1>2, <2>1, <2>2 DEF SoundBut
<1>5. /\ Sound(v) /\ TelnetKept(v)
      /\ \A c \in Slots : IF c \in cs
           THEN v.conns[c].pcb = NULL /\ v.conns[c].state = "IDLE"
           ELSE v.conns[c] = conns[c]
      /\ v.term_conn = IF w0.term_conn \in cs THEN 0 ELSE w0.term_conn
  <2>1. OutsideOf(w0, cs)
    BY <1>2, <1>3 DEF OutsideOf, Awake, Woken
  <2>2. Sound(v) /\ TelnetKept(v) /\ Closes(w0, cs, v)
    BY <1>3, <1>4, <2>1, CloseKeeps
  <2> HIDE DEF v
  <2> QED
    BY <1>2, <2>2 DEF Closes
<1> HIDE DEF v
<1>6. v.term_conn = 0 /\ \A c \in Slots : v.conns[c].pcb = NULL
  BY <1>2, <1>3, <1>5, NowFacts DEF Matched
<1>7. keepalives' \in Nat
  BY <1>1 DEF NInv, Waiting
<1>8. emitq' = "new" /\ ~event' /\ emitter' = "cdc" => emit_retry_pending
  BY <1>1 DEF NInv, Waiting, cli
<1> QED
  BY <1>1, <1>5, <1>6, <1>7, <1>8, WebStep

LEMMA HttpNextStep ==
  ASSUME NInv, Web
  PROVE  NInv'
<1>1. UNCHANGED <<cdc, telnet>> /\ HttpNext
  BY DEF Web
<1>2. ASSUME NEW p \in Pcbs, NEW c \in Slots, NEW granted \in BOOLEAN,
             \/ RecvTermStream(p, c, granted) \/ RecvTermIn(p, c, granted)
             \/ \E k \in Paths : RecvStream(p, c, k, granted)
             \/ \E n \in Lengths : RecvRoute(p, c, n, granted)
             \/ \E rest \in 0 .. SND_BUF - 1 : http_sent(p, c, rest, granted)
      PROVE  NInv'
  BY <1>1, <1>2, TermStreamStep, StreamStep, ResponseStep, SentStep
<1>3. ASSUME NEW p \in Pcbs, NEW c \in Slots, RecvNothing(p, c) \/ http_err(p, c) PROVE NInv'
  BY <1>1, <1>3, RecvNothingStep, ErrStep
<1>4. ASSUME NEW p \in Pcbs, http_accept(p) PROVE NInv'
  BY <1>1, <1>4, AcceptStep
<1>5. ASSUME NEW k \in Paths, NEW granted \in BOOLEAN, http_sse_push(k, granted) PROVE NInv'
  BY <1>1, <1>5, PushStep
<1>6. ASSUME NEW granted \in BOOLEAN, http_sse_keepalive(granted) PROVE NInv'
  BY <1>1, <1>6, KeepaliveStep
<1>7. CASE http_server_start \/ http_server_stop
  BY <1>1, <1>7, StartStep, StopStep
<1> QED
  BY <1>1, <1>2, <1>3, <1>4, <1>5, <1>6, <1>7 DEF HttpNext

-----------------------------------------------------------------------------
(***************************************************************************)
(* The steps of the Telnet server.                                         *)
(***************************************************************************)
\* The slots' blocks are theirs in w as they are now.
HttpKept(w) ==
  \A p \in Pcbs, c \in Slots : w.owner[p] = <<"http", c>> <=> owner[p] = <<"http", c>>

LEMMA TelFacts ==
  ASSUME NInv
  PROVE  /\ Tel!Now \in TelWorld /\ TelMatched(Tel!Now)
         /\ sessions \in [Tel!Sessions -> Sess] /\ current_conn \in Tel!Sessions \cup {0}
         /\ owner \in [Pcbs -> Owner]
         /\ Tel!Now.conns = sessions /\ Tel!Now.current_conn = current_conn
         /\ Tel!Now.owner = owner
<1>1. Tel!Now \in TelWorld /\ TelMatched(Tel!Now)
  BY DEF NInv, TelSound
<1>2. Tel!Now.conns = sessions /\ Tel!Now.current_conn = current_conn /\ Tel!Now.owner = owner
  BY DEF Tel!Now
<1> QED
  BY <1>1, <1>2 DEF TelWorld

\* What the HTTP server's part of the invariant needs of the other steps.
LEMMA HttpUndisturbed ==
  ASSUME NInv, UNCHANGED httpvars, owner' \in [Pcbs -> Owner],
         \A p \in Pcbs, c \in Slots : owner'[p] = <<"http", c>> <=> owner[p] = <<"http", c>>
  PROVE  Sound(Now)'
<1>1. conns' = conns /\ chan' = chan /\ term_conn' = term_conn
      /\ flight' = flight /\ starved' = starved
  BY DEF httpvars
<1> DEFINE w == [conns |-> conns, chan |-> chan, term_conn |-> term_conn,
                 owner |-> owner', flight |-> flight, starved |-> starved]
<1>2. Now' = w
  BY <1>1 DEF Now
<1>3. w \in World
  BY NowFacts DEF World
<1>4. w.conns = conns /\ w.chan = chan /\ w.term_conn = term_conn /\ w.owner = owner'
      /\ w.flight = flight /\ w.starved = starved
  OBVIOUS
<1> HIDE DEF w
<1>5. Matched(w)
  BY <1>4, NowFacts DEF Matched
<1>6. Bound(w)
  BY <1>4, NowFacts DEF Bound
<1>7. \A c \in Slots : Served(w, c)
  BY <1>4, NowFacts DEF Served, Awake
<1> QED
  BY <1>2, <1>3, <1>5, <1>6, <1>7 DEF Sound, SoundBut

LEMMA TelStep ==
  ASSUME NInv, NEW w, TelSound(w), HttpKept(w), Tel!Becomes(w), UNCHANGED <<cdc, httpvars>>,
         ~telnet_listener' => \A c \in Tel!Sessions : ~w.conns[c].active,
         \/ emitter' = "telnet"
         \/ emitq' = "new" /\ ~event' => emitq = "new" /\ ~event /\ emitter' = emitter
  PROVE  NInv'
<1>1. w \in TelWorld /\ TelMatched(w)
  BY DEF TelSound
<1>2. sessions' = w.conns /\ current_conn' = w.current_conn /\ owner' = w.owner
  BY DEF Tel!Becomes
<1>3. Tel!Now' = w
  BY <1>1, <1>2 DEF Tel!Now, TelWorld
<1>4. TelSound(Tel!Now')
  BY <1>1, <1>3 DEF TelSound
<1>5. Sound(Now)'
  <2>1. owner' \in [Pcbs -> Owner]
    BY <1>1, <1>2 DEF TelWorld
  <2>2. \A p \in Pcbs, c \in Slots : owner'[p] = <<"http", c>> <=> owner[p] = <<"http", c>>
    BY <1>2 DEF HttpKept
  <2> QED
    BY <2>1, <2>2, HttpUndisturbed
<1>6. Stopped'
  BY <1>2 DEF NInv, Stopped, httpvars
<1>7. Waiting'
  BY DEF NInv, Waiting, Woken, cdc, httpvars
<1> QED
  BY <1>4, <1>5, <1>6, <1>7 DEF NInv

\* The sessions cs are freed and their blocks are gone: by a close, or because
\* lwIP reports an error.
LEMMA FreedKeeps ==
  ASSUME NInv, NEW cs \in SUBSET Tel!Sessions, NEW w,
         w.conns = [c \in Tel!Sessions |-> IF c \in cs THEN Tel!Free ELSE sessions[c]],
         w.current_conn = IF current_conn \in cs THEN 0 ELSE current_conn,
         NEW ps \in SUBSET Pcbs,
         \A p \in Pcbs : p \in ps <=> \E c \in cs : sessions[c].pcb = p,
         w.owner = [p \in Pcbs |-> IF p \in ps THEN Nobody ELSE owner[p]],
         w = [conns |-> w.conns, current_conn |-> w.current_conn, owner |-> w.owner]
  PROVE  TelSound(w) /\ HttpKept(w)
<1>1. w.conns \in [Tel!Sessions -> Sess]
  BY IdleConn, TelFacts
<1>2. w.current_conn \in Tel!Sessions \cup {0} /\ w.owner \in [Pcbs -> Owner]
  BY TelFacts DEF Owner
<1>3. w \in TelWorld
  BY <1>1, <1>2 DEF TelWorld
<1>4. Tel!Free.pcb = NULL /\ Tel!Free.active = FALSE
  BY DEF Tel!Free
<1>5. ASSUME NEW p \in Pcbs, NEW c \in Tel!Sessions
      PROVE  w.owner[p] = <<"telnet", c>> <=> w.conns[c].pcb = p
  <2>1. CASE p \in ps
    <3>1. PICK d \in cs : sessions[d].pcb = p
      BY <2>1
    <3>2. owner[p] = <<"telnet", d>>
      BY <3>1, TelFacts DEF TelMatched
    <3>3. c \notin cs => sessions[c].pcb # p
      <4>1. ASSUME sessions[c].pcb = p
            PROVE  c = d
        <5>1. <<"telnet", c>> = <<"telnet", d>>
          BY <3>2, <4>1, TelFacts DEF TelMatched
        <5> QED
          BY <5>1
      <4> QED
        BY <3>1, <4>1
    <3>4. w.conns[c].pcb # p
      BY <1>4, <3>3
    <3>5. w.owner[p] # <<"telnet", c>>
      BY <2>1 DEF Nobody
    <3> QED
      BY <3>4, <3>5
  <2>2. CASE p \notin ps
    <3>1. w.owner[p] = owner[p]
      BY <2>2
    <3>2. w.conns[c].pcb = p <=> sessions[c].pcb = p
      BY <1>4, <2>2
    <3> QED
      BY <3>1, <3>2, TelFacts DEF TelMatched
  <2> QED
    BY <2>1, <2>2
<1>6. \A c \in Tel!Sessions : w.conns[c].active <=> w.conns[c].pcb # NULL
  BY <1>4, TelFacts DEF TelMatched
<1>7. w.current_conn # 0 => w.conns[w.current_conn].active
  BY TelFacts DEF TelMatched
<1>8. TelMatched(w)
  BY <1>5, <1>6, <1>7 DEF TelMatched
<1>9. ASSUME NEW p \in Pcbs, NEW c \in Slots
      PROVE  w.owner[p] = <<"http", c>> <=> owner[p] = <<"http", c>>
  <2>1. CASE p \in ps
    <3>1. PICK d \in cs : sessions[d].pcb = p
      BY <2>1
    <3>2. owner[p] = <<"telnet", d>>
      BY <3>1, TelFacts DEF TelMatched
    <3>3. w.owner[p] = <<"none", 0>>
      BY <2>1 DEF Nobody
    <3> QED
      BY <3>2, <3>3
  <2>2. CASE p \notin ps
    BY <2>2
  <2> QED
    BY <2>1, <2>2
<1> QED
  BY <1>3, <1>8, <1>9 DEF TelSound, HttpKept

LEMMA TelCloseKeeps ==
  ASSUME NInv, NEW cs \in SUBSET Tel!Sessions
  PROVE  LET w == Tel!conn_close(Tel!Now, cs) IN
         /\ TelSound(w) /\ HttpKept(w)
         /\ \A c \in Tel!Sessions : c \in cs \/ ~sessions[c].active => ~w.conns[c].active
<1> DEFINE open == {c \in cs : sessions[c].pcb # NULL}
           ps == {sessions[c].pcb : c \in open}
           w == Tel!conn_close(Tel!Now, cs)
           C == [c \in Tel!Sessions |-> IF c \in open THEN Tel!Free ELSE sessions[c]]
           X == IF current_conn \in open THEN 0 ELSE current_conn
           O == [p \in Pcbs |-> IF p \in ps THEN Nobody ELSE owner[p]]
<1>1. open \in SUBSET Tel!Sessions /\ ps \in SUBSET Pcbs
      /\ \A p \in Pcbs : p \in ps <=> \E c \in open : sessions[c].pcb = p
  BY TelFacts DEF Sess
<1>2. w = [conns |-> C, current_conn |-> X, owner |-> O]
  <2> DEFINE r == Tel!Released(Tel!Now, ps)
  <2>1. w = Tel!conn_free(r, open)
    BY TelFacts DEF Tel!conn_close
  <2>2. r = [Tel!Now EXCEPT !.owner = O]
    BY TelFacts DEF Tel!Released, Tel!Nobody, Nobody
  <2> HIDE DEF O, C, X, open, ps, w
  <2>3. r = [conns |-> sessions, current_conn |-> current_conn, owner |-> O]
    BY <2>2 DEF Tel!Now
  <2> HIDE DEF r
  <2>4. Tel!conn_free(r, open) = [r EXCEPT !.current_conn = X, !.conns = C]
    BY <2>3 DEF Tel!conn_free, X, C
  <2> QED
    BY <2>1, <2>3, <2>4
<1>3. w.conns = C /\ w.current_conn = X /\ w.owner = O
  BY <1>2
<1> HIDE DEF w, ps, open
<1>4. TelSound(w) /\ HttpKept(w)
  BY <1>1, <1>2, <1>3, FreedKeeps
<1>5. \A c \in Tel!Sessions : c \in cs \/ ~sessions[c].active => ~w.conns[c].active
  BY <1>3, TelFacts DEF open, Tel!Free, TelMatched
<1> QED
  BY <1>4, <1>5 DEF w

\* A session that is called back has the block, and the server is on.
LEMMA TelCalledFacts ==
  ASSUME NInv, NEW p \in Pcbs, NEW c \in Tel!Sessions, Tel!Called(p, c)
  PROVE  /\ sessions[c].pcb = p /\ p # NULL /\ sessions[c].active /\ telnet_listener
         /\ owner[p] = <<"telnet", c>>
<1>1. sessions[c].pcb = p /\ owner[p] = <<"telnet", c>> /\ p # NULL
  BY TelFacts DEF Tel!Called, TelMatched
<1>2. sessions[c].active
  BY <1>1, TelFacts DEF TelMatched
<1> QED
  BY <1>1, <1>2 DEF NInv, Stopped

LEMMA TelAcceptStep ==
  ASSUME NInv, NEW p \in Pcbs, Tel!telnet_accept(p), UNCHANGED <<cdc, httpvars>>
  PROVE  NInv'
<1> DEFINE c == Tel!Min(Tel!Inactive)
           w == [Tel!Now EXCEPT !.conns[c] = [pcb |-> p, active |-> TRUE],
                                !.owner[p] = <<"telnet", c>>]
           C == [sessions EXCEPT ![c] = [pcb |-> p, active |-> TRUE]]
           O == [owner EXCEPT ![p] = <<"telnet", c>>]
<1>1. /\ telnet_listener /\ owner[p] = Nobody /\ Tel!Becomes(w) /\ Tel!Inactive # {}
      /\ UNCHANGED <<telnet_listener, cli>>
  BY DEF Tel!telnet_accept, Tel!IsFree, Tel!Nobody, Nobody, Tel!cli, cli
<1>2. c \in Tel!Sessions /\ ~sessions[c].active /\ sessions[c].pcb = NULL
  <2>1. Tel!Inactive \in SUBSET Nat /\ c = Min(Tel!Inactive)
    BY SlotNumbers DEF Tel!Inactive, Tel!Min, Min
  <2>2. c \in Tel!Inactive
    BY <1>1, <2>1, MinFacts
  <2> QED
    BY <2>2, TelFacts DEF Tel!Inactive, TelMatched
<1>3. w = [Tel!Now EXCEPT !.conns = C, !.owner = O]
  BY TelFacts DEF Tel!Now
<1>4. C \in [Tel!Sessions -> Sess] /\ O \in [Pcbs -> Owner]
      /\ C[c].pcb = p /\ C[c].active /\ (\A d \in Tel!Sessions \ {c} : C[d] = sessions[d])
      /\ O[p] = <<"telnet", c>> /\ \A q \in Pcbs \ {p} : O[q] = owner[q]
  BY <1>2, TelFacts DEF Sess, Owner, TelnetOwner
<1> HIDE DEF c, w, C, O
<1>5. w.conns = C /\ w.current_conn = current_conn /\ w.owner = O
      /\ w \in TelWorld
  BY <1>3, <1>4, TelFacts DEF TelWorld, Tel!Now
<1>6. \A d \in Tel!Sessions : sessions[d].pcb # p
  BY <1>1, TelFacts DEF TelMatched, Nobody
<1>7. TelMatched(w)
  <2>1. ASSUME NEW q \in Pcbs, NEW d \in Tel!Sessions
        PROVE  O[q] = <<"telnet", d>> <=> C[d].pcb = q
    <3>1. CASE q = p /\ d = c
      BY <1>4, <3>1
    <3>2. CASE q = p /\ d # c
      BY <1>4, <1>6, <3>2
    <3>3. CASE q # p /\ d = c
      <4>1. sessions[d].pcb # q /\ O[q] = owner[q]
        BY <1>2, <1>4, <3>3
      <4> QED
        BY <1>4, <3>3, <4>1, TelFacts DEF TelMatched
    <3>4. CASE q # p /\ d # c
      BY <1>4, <3>4, TelFacts DEF TelMatched
    <3> QED
      BY <3>1, <3>2, <3>3, <3>4
  <2>2. \A d \in Tel!Sessions : C[d].active <=> C[d].pcb # NULL
    BY <1>4, TelFacts DEF TelMatched
  <2>3. current_conn # 0 => C[current_conn].active
    BY <1>4, TelFacts DEF TelMatched
  <2> QED
    BY <1>5, <2>1, <2>2, <2>3 DEF TelMatched
<1>8. HttpKept(w)
  BY <1>1, <1>4, <1>5 DEF HttpKept, Nobody
<1>9. TelSound(w)
  BY <1>5, <1>7 DEF TelSound
<1> QED
  BY <1>1, <1>8, <1>9, TelStep DEF cli

\* The session that something comes from gets the CLI's output.
LEMMA TelRecvStep ==
  ASSUME NInv, NEW p \in Pcbs, NEW c \in Tel!Sessions, Tel!telnet_recv(p, c),
         UNCHANGED <<cdc, httpvars>>
  PROVE  NInv'
<1> DEFINE w == [conns |-> sessions, current_conn |-> c, owner |-> owner]
<1>1. /\ Tel!Called(p, c) /\ current_conn' = c /\ UNCHANGED <<sessions, telnet_listener, owner, event>>
      /\ emitter' = "telnet"
  BY DEF Tel!telnet_recv, Tel!Claimed
<1>2. sessions[c].active /\ telnet_listener
  BY <1>1, TelCalledFacts
<1>3. Tel!Becomes(w)
  BY <1>1 DEF Tel!Becomes
<1>4. w \in TelWorld /\ w.conns = sessions /\ w.current_conn = c /\ w.owner = owner
  BY TelFacts DEF TelWorld
<1> HIDE DEF w
<1>5. TelSound(w)
  BY <1>2, <1>4, TelFacts DEF TelSound, TelMatched
<1>6. HttpKept(w)
  BY <1>4 DEF HttpKept
<1>7. telnet_listener' /\ emitter' = "telnet"
  BY <1>1, <1>2
<1>8. NInv /\ UNCHANGED <<cdc, httpvars>>
  OBVIOUS
<1> QED
  BY ONLY <1>3, <1>5, <1>6, <1>7, <1>8, TelStep

LEMMA TelClosesStep ==
  ASSUME NInv, NEW p \in Pcbs, NEW c \in Tel!Sessions, Tel!Closes(p, c), UNCHANGED <<cdc, httpvars>>
  PROVE  NInv'
<1> DEFINE w == Tel!conn_close(Tel!Now, {c})
<1>1. Tel!Called(p, c) /\ Tel!Becomes(w) /\ UNCHANGED <<telnet_listener, cli>>
  BY DEF Tel!Closes, Tel!cli, cli
<1>2. TelSound(w) /\ HttpKept(w)
  BY TelCloseKeeps
<1>3. telnet_listener
  BY <1>1, TelCalledFacts
<1> HIDE DEF w
<1> QED
  BY <1>1, <1>2, <1>3, TelStep DEF cli

\* An error frees the block first, and leaves what a close does.
LEMMA TelErrStep ==
  ASSUME NInv, NEW p \in Pcbs, NEW c \in Tel!Sessions, Tel!telnet_err(p, c),
         UNCHANGED <<cdc, httpvars>>
  PROVE  NInv'
<1> DEFINE cs == {c}
           ps == {p}
           r == Tel!conn_free(Tel!Now, cs)
           w == Tel!Released(r, ps)
           C == [d \in Tel!Sessions |-> IF d \in cs THEN Tel!Free ELSE sessions[d]]
           X == IF current_conn \in cs THEN 0 ELSE current_conn
           O == [q \in Pcbs |-> IF q \in ps THEN Nobody ELSE owner[q]]
<1>1. Tel!Called(p, c) /\ Tel!Becomes(w) /\ UNCHANGED <<telnet_listener, cli>>
  BY DEF Tel!telnet_err, Tel!cli, cli
<1>2. sessions[c].pcb = p /\ telnet_listener
  BY <1>1, TelCalledFacts
<1>3. w = [conns |-> C, current_conn |-> X, owner |-> O]
  <2>1. r = [Tel!Now EXCEPT !.current_conn = X, !.conns = C]
    BY TelFacts DEF Tel!conn_free
  <2> HIDE DEF r, C, X, O
  <2>2. r = [conns |-> C, current_conn |-> X, owner |-> owner]
    BY <2>1 DEF Tel!Now
  <2>3. w = [r EXCEPT !.owner = O]
    BY <2>2 DEF Tel!Released, Tel!Nobody, Nobody, O
  <2> QED
    BY <2>2, <2>3
<1>4. w.conns = C /\ w.current_conn = X /\ w.owner = O
  BY <1>3
<1>5. /\ cs \in SUBSET Tel!Sessions /\ ps \in SUBSET Pcbs
      /\ \A q \in Pcbs : q \in ps <=> \E d \in cs : sessions[d].pcb = q
  BY <1>2
<1> HIDE DEF cs, ps, w
<1>6. TelSound(w) /\ HttpKept(w)
  BY <1>3, <1>4, <1>5, FreedKeeps
<1> QED
  BY <1>1, <1>2, <1>6, TelStep DEF cli

LEMMA TelStartStopStep ==
  ASSUME NInv, Tel!telnet_server_start \/ Tel!telnet_server_stop, UNCHANGED <<cdc, httpvars>>
  PROVE  NInv'
<1>1. CASE Tel!telnet_server_start
  <2>1. telnet_listener' = TRUE /\ UNCHANGED <<sessions, current_conn, owner, cli>>
    BY <1>1 DEF Tel!telnet_server_start, Tel!cli, cli
  <2>2. Tel!Becomes(Tel!Now)
    BY <2>1 DEF Tel!Becomes, Tel!Now
  <2>3. TelSound(Tel!Now) /\ HttpKept(Tel!Now)
    BY TelFacts DEF TelSound, HttpKept
  <2> QED
    BY <2>1, <2>2, <2>3, TelStep DEF cli
<1>2. CASE Tel!telnet_server_stop
  <2> DEFINE cs == Tel!Sessions \ Tel!Inactive
             w == Tel!conn_close(Tel!Now, cs)
  <2>1. Tel!Becomes(w) /\ telnet_listener' = FALSE /\ UNCHANGED cli
    BY <1>2 DEF Tel!telnet_server_stop, Tel!cli, cli
  <2>2. /\ TelSound(w) /\ HttpKept(w)
        /\ \A c \in Tel!Sessions : c \in cs \/ ~sessions[c].active => ~w.conns[c].active
    BY TelCloseKeeps
  <2>3. \A c \in Tel!Sessions : c \in cs \/ ~sessions[c].active
    BY DEF Tel!Inactive
  <2> HIDE DEF w, cs
  <2> QED
    BY <2>1, <2>2, <2>3, TelStep DEF cli
<1> QED
  BY <1>1, <1>2

LEMMA TelnetNextStep ==
  ASSUME NInv, Terminals
  PROVE  NInv'
<1>1. UNCHANGED <<cdc, httpvars>> /\ Tel!TelnetNext
  BY DEF Terminals
<1>2. ASSUME NEW p \in Pcbs, NEW c \in Tel!Sessions,
             Tel!telnet_recv(p, c) \/ Tel!Closes(p, c) \/ Tel!telnet_err(p, c)
      PROVE  NInv'
  BY <1>1, <1>2, TelRecvStep, TelClosesStep, TelErrStep
<1>3. ASSUME NEW p \in Pcbs, Tel!telnet_accept(p) PROVE NInv'
  BY <1>1, <1>3, TelAcceptStep
<1>4. CASE Tel!telnet_server_start \/ Tel!telnet_server_stop
  BY <1>1, <1>4, TelStartStopStep
<1> QED
  BY <1>1, <1>2, <1>3, <1>4 DEF Tel!TelnetNext

-----------------------------------------------------------------------------
(***************************************************************************)
(* The CLI's output.                                                       *)
(***************************************************************************)
\* A step of the transports that leaves the servers alone.
LEMMA TransportStep ==
  ASSUME NInv, UNCHANGED <<owner, httpvars, telnet>>, Waiting'
  PROVE  NInv'
<1>1. owner' = owner /\ flight' = flight /\ starved' = starved /\ conns' = conns
      /\ chan' = chan /\ term_conn' = term_conn /\ listener' = listener
      /\ sessions' = sessions /\ current_conn' = current_conn
      /\ telnet_listener' = telnet_listener
  BY DEF httpvars, telnet
<1>2. Now' = Now /\ Tel!Now' = Tel!Now
  BY <1>1 DEF Now, Tel!Now
<1>3. Sound(Now') /\ TelSound(Tel!Now')
  BY <1>2 DEF NInv
<1>4. Stopped'
  BY <1>1 DEF NInv, Stopped
<1> QED
  BY <1>3, <1>4 DEF NInv

\* At most one retry is queued, and the flag says so, whatever cdc_emit() finds.
LEMMA CdcEmits ==
  ASSUME NInv, NEW pending \in BOOLEAN, NEW queued \in Nat, queued = IF pending THEN 1 ELSE 0,
         cdc_emit(pending, queued)
  PROVE  /\ emit_retry_pending' \in BOOLEAN /\ retries' = IF emit_retry_pending' THEN 1 ELSE 0
         /\ emitq' = "new" => emit_retry_pending'
<1>1. CASE emitq' = "empty" /\ emit_retry_pending' = pending /\ retries' = queued
  BY <1>1
<1>2. CASE Retry(pending, queued)
  BY <1>2 DEF Retry
<1> QED
  BY <1>1, <1>2 DEF cdc_emit

LEMMA UsbStep ==
  ASSUME NInv, Usb
  PROVE  NInv'
<1>1. UNCHANGED <<owner, httpvars, telnet>>
  BY DEF Usb
<1>2. Waiting
  BY DEF NInv
<1>3. keepalives' = keepalives /\ term_conn' = term_conn
      /\ (Woken(conns[term_conn].pcb)' <=> Woken(conns[term_conn].pcb))
  BY <1>1 DEF httpvars, Woken
<1>4. CASE CliPrints \/ tud_cdc_line_state_cb
  <2>1. event' /\ UNCHANGED cdc
    BY <1>4 DEF CliPrints, tud_cdc_line_state_cb
  <2> QED
    BY <1>1, <1>2, <1>3, <2>1, TransportStep DEF Waiting, cdc
<1>5. CASE cdc_claim
  <2>1. event' = event /\ UNCHANGED cdc /\ emitter' = "cdc"
        /\ (emitq' = "new" => emitq = "new" /\ emitter = "cdc")
    BY <1>5 DEF cdc_claim, Claimed
  <2> QED
    BY <1>1, <1>2, <1>3, <2>1, TransportStep DEF Waiting, cdc
<1>6. CASE cdc_emit_action
  <2>1. cdc_emit(FALSE, 0) /\ event' = event /\ emitter' = emitter
    <3>1. retries > 0 /\ cdc_emit(FALSE, retries - 1) /\ UNCHANGED <<event, emitter>>
      BY <1>6 DEF cdc_emit_action
    <3>2. retries - 1 = 0
      BY <1>2, <3>1 DEF Waiting
    <3> QED
      BY <3>1, <3>2
  <2>2. emit_retry_pending' \in BOOLEAN /\ retries' = (IF emit_retry_pending' THEN 1 ELSE 0)
        /\ (emitq' = "new" => emit_retry_pending')
    BY <2>1, CdcEmits
  <2>3. emitq' = "new" => emitq = "new"
    BY <2>1 DEF cdc_emit
  <2> QED
    BY <1>1, <1>2, <1>3, <2>1, <2>2, <2>3, TransportStep DEF Waiting
<1>7. CASE tud_cdc_tx_complete_cb
  <2>1. UNCHANGED cli
    BY <1>7 DEF tud_cdc_tx_complete_cb
  <2>2. CASE emitq # "empty" /\ ~emit_retry_pending
    <3>1. emit_retry_pending' = TRUE /\ retries' = 1
      BY <1>2, <1>7, <2>2 DEF tud_cdc_tx_complete_cb, Retry, Waiting
    <3> QED
      BY <1>1, <1>2, <1>3, <2>1, <3>1, TransportStep DEF Waiting, cli
  <2>3. CASE ~(emitq # "empty" /\ ~emit_retry_pending)
    <3>1. UNCHANGED <<emit_retry_pending, retries>>
      BY <1>7, <2>3 DEF tud_cdc_tx_complete_cb
    <3> QED
      BY <1>1, <1>2, <1>3, <2>1, <3>1, TransportStep DEF Waiting, cli
  <2> QED
    BY <2>2, <2>3
<1> QED
  BY <1>4, <1>5, <1>6, <1>7 DEF Usb

\* The output event calls who claimed it last.
LEMMA EmitStep ==
  ASSUME NInv, EmitEvent
  PROVE  NInv'
<1>1. /\ event' = FALSE /\ UNCHANGED <<listener, keepalives, sessions, telnet_listener, current_conn>>
      /\ emitter' = emitter
  BY DEF EmitEvent
<1>2. Waiting
  BY DEF NInv
<1>3. CASE emitter = "http"
  <2>1. PICK granted \in BOOLEAN : http_sse_emit(Now, granted)
    BY <1>3 DEF EmitEvent
  <2>2. UNCHANGED <<telnet, cdc, listener, keepalives>>
    BY <1>1, <1>3 DEF EmitEvent, telnet
  <2> QED
    BY <1>1, <1>3, <2>1, <2>2, NowFacts, SseEmits
<1>4. CASE emitter = "telnet"
  <2>1. Becomes(Now) /\ UNCHANGED cdc
    BY <1>4 DEF EmitEvent
  <2>2. UNCHANGED <<cdc, httpvars>> /\ owner' = owner
    BY <1>1, <2>1, NowFacts DEF Becomes, httpvars
  <2>3. Tel!Becomes(Tel!Now)
    BY <1>1, <2>2, TelFacts DEF Tel!Becomes
  <2>4. TelSound(Tel!Now) /\ HttpKept(Tel!Now)
    BY TelFacts DEF TelSound, HttpKept
  <2>5. ~telnet_listener' => \A c \in Tel!Sessions : ~Tel!Now.conns[c].active
    BY <1>1, TelFacts DEF NInv, Stopped
  <2> QED
    BY <1>1, <1>4, <2>2, <2>3, <2>4, <2>5, TelStep
<1>5. CASE emitter \notin {"http", "telnet"}
  <2>1. Becomes(Now)
    BY <1>5 DEF EmitEvent
  <2>2. UNCHANGED <<owner, httpvars, telnet>>
    BY <1>1, <2>1, NowFacts DEF Becomes, httpvars, telnet
  <2>3. CASE emitter = "cdc"
    <3>1. cdc_emit(emit_retry_pending, retries)
      BY <2>3 DEF EmitEvent
    <3>2. emit_retry_pending' \in BOOLEAN /\ retries' = (IF emit_retry_pending' THEN 1 ELSE 0)
          /\ (emitq' = "new" => emit_retry_pending')
      BY <1>2, <3>1, CdcEmits DEF Waiting
    <3>3. keepalives' = keepalives /\ term_conn' = term_conn
      BY <2>2 DEF httpvars
    <3> QED
      BY <1>1, <1>2, <2>2, <2>3, <3>2, <3>3, TransportStep DEF Waiting
  <2>4. CASE emitter # "cdc"
    <3>1. UNCHANGED cdc
      BY <1>5, <2>4 DEF EmitEvent
    <3>2. keepalives' = keepalives /\ term_conn' = term_conn
      BY <2>2 DEF httpvars
    <3> QED
      BY <1>1, <1>2, <1>5, <2>2, <2>4, <3>1, <3>2, TransportStep DEF Waiting, cdc
  <2> QED
    BY <2>3, <2>4
<1> QED
  BY <1>3, <1>4, <1>5

-----------------------------------------------------------------------------
(***************************************************************************)
(* The invariant, and what it says.                                        *)
(***************************************************************************)
LEMMA InitInv == Init => NInv
<1> SUFFICES ASSUME Init PROVE NInv
  OBVIOUS
<1> USE DEF Init, LwipInit, TransportInit, HttpInit, Tel!TelnetInit
<1>1. Idle.pcb = NULL /\ Idle.state = "IDLE" /\ Tel!Free.pcb = NULL /\ Tel!Free.active = FALSE
  BY DEF Idle, Tel!Free
<1>2. Now \in World
  <2>1. conns \in [Slots -> Conn] /\ owner \in [Pcbs -> Owner]
    BY IdleConn DEF Owner
  <2> QED
    BY <2>1 DEF Now, World
<1>3. Matched(Now)
  BY <1>1 DEF Now, Matched, Nobody
<1>4. Bound(Now)
  BY DEF Now, Bound
<1>5. \A c \in Slots : Served(Now, c)
  BY <1>1 DEF Now, Served
<1>6. Tel!Now \in TelWorld
  <2>1. sessions \in [Tel!Sessions -> Sess] /\ owner \in [Pcbs -> Owner]
    BY IdleConn DEF Owner
  <2> QED
    BY <2>1 DEF Tel!Now, TelWorld
<1>7. TelMatched(Tel!Now)
  BY <1>1 DEF Tel!Now, TelMatched, Nobody
<1>8. Stopped /\ Waiting
  BY <1>1 DEF Stopped, Waiting
<1> QED
  BY <1>2, <1>3, <1>4, <1>5, <1>6, <1>7, <1>8 DEF NInv, Sound, SoundBut, TelSound

LEMMA StepInv == NInv /\ [Next]_vars => NInv'
<1> SUFFICES ASSUME NInv, [Next]_vars PROVE NInv'
  OBVIOUS
<1>1. CASE UNCHANGED vars
  <2>1. UNCHANGED <<owner, httpvars, telnet>> /\ UNCHANGED <<cli, cdc>>
    BY <1>1 DEF vars
  <2>2. Waiting'
    BY <2>1 DEF NInv, Waiting, Woken, httpvars, cli, cdc
  <2> QED
    BY <2>1, <2>2, TransportStep
<1> QED
  BY <1>1, HttpNextStep, TelnetNextStep, UsbStep, EmitStep DEF Next

THEOREM Invariance == Spec => []NInv
  BY InitInv, StepInv, PTL DEF Spec

\* For any number of slots, sessions and blocks: a callback gets the slot whose
\* block it is about, no two slots hold one block, none is lost to a connection
\* that is gone, and a server that is stopped has none (http_server.c:149-192,
\* 297-300, 442-544; telnet_server.c:96-119, 202-301).
THEOREM SlotsKept == Spec => []SlotsMatchPcbs
<1>1. NInv => SlotsMatchPcbs
  <2> SUFFICES ASSUME NInv PROVE SlotsMatchPcbs
    OBVIOUS
  <2>1. \A p \in Pcbs, c \in Slots : owner[p] = <<"http", c>> <=> conns[c].pcb = p
    BY NowFacts DEF Matched
  <2>2. \A p \in Pcbs, c \in Tel!Sessions : owner[p] = <<"telnet", c>> <=> sessions[c].pcb = p
    BY TelFacts DEF TelMatched
  <2>3. \A c \in Slots : conns[c].state = "IDLE" <=> conns[c].pcb = NULL
    BY NowFacts DEF Matched
  <2>4. \A c \in Tel!Sessions : sessions[c].active <=> sessions[c].pcb # NULL
    BY TelFacts DEF TelMatched
  <2>5. ~listener => Freeable = Slots
    BY <2>3 DEF NInv, Stopped, Freeable
  <2>6. ~telnet_listener => Tel!Inactive = Tel!Sessions
    BY DEF NInv, Stopped, Tel!Inactive
  <2> QED
    BY <2>1, <2>2, <2>3, <2>4, <2>5, <2>6 DEF SlotsMatchPcbs
<1> QED
  BY <1>1, Invariance, PTL

\* For any number of paths and slots: what is written to is an open stream,
\* bound to the terminal or to exactly one path, and no stream is left that
\* nothing is bound to (http_server.h:36-46; http_server.c:169-177, 338-395).
THEOREM StreamsKept == Spec => []StreamsAreLive
<1>1. NInv => StreamsAreLive
  <2> SUFFICES ASSUME NInv PROVE StreamsAreLive
    OBVIOUS
  <2>1. /\ term_conn # 0 => conns[term_conn].state = "SSE"
        /\ \A k \in Paths : chan[k] # NULL =>
             \E c \in Slots : conns[c].pcb = chan[k] /\ conns[c].state = "SSE" /\ term_conn # c
        /\ \A j, k \in Paths : chan[j] = chan[k] /\ chan[k] # NULL => j = k
    BY NowFacts DEF Bound
  <2>2. current_conn # 0 => sessions[current_conn].active
    BY TelFacts DEF TelMatched
  <2>3. ASSUME NEW c \in Slots, conns[c].state = "SSE"
        PROVE  Cardinality({k \in Paths : chan[k] = conns[c].pcb}) = IF term_conn = c THEN 0 ELSE 1
    <3> DEFINE bound == {k \in Paths : chan[k] = conns[c].pcb}
    <3>1. conns[c].pcb # NULL
      BY <2>3, NowFacts DEF Matched
    <3>2. CASE term_conn = c
      <4>1. ASSUME NEW k \in bound PROVE FALSE
        <5>1. PICK d \in Slots : conns[d].pcb = chan[k] /\ term_conn # d
          BY <2>1, <3>1
        <5>2. d = c
          BY <3>1, <5>1, NowFacts, OneSlot
        <5> QED
          BY <3>2, <5>1, <5>2
      <4>2. bound = {}
        BY <4>1
      <4> QED
        BY <3>2, <4>2, FS_EmptySet
    <3>3. CASE term_conn # c
      <4>1. PICK k \in Paths : chan[k] = conns[c].pcb
        BY <2>3, <3>3, NowFacts DEF Served
      <4>2. bound = {k}
        BY <2>1, <3>1, <4>1
      <4>3. Cardinality({k}) = 1
        BY FS_Singleton
      <4> QED
        BY <3>3, <4>2, <4>3
    <3> QED
      BY <3>2, <3>3
  <2> QED
    BY <2>1, <2>2, <2>3 DEF StreamsAreLive
<1> QED
  BY <1>1, Invariance, PTL

\* Whatever waits has something coming: a response an acknowledgment, a terminal
\* stream its keepalive, output that is left a retry or an acknowledgment. What
\* waits with nothing coming is on a connection that had nothing in flight when
\* lwIP refused the write: no other step leaves a response or the terminal's
\* output behind (http_server.c:95-145, 261-283, 419-440;
\* cli_transport_cdc.c:45-105).
THEOREM NobodyIsForgotten == Spec => []WaitersAreWoken
<1>1. NInv => WaitersAreWoken
  BY NowFacts DEF NInv, Waiting, Served, WaitersAreWoken
<1> QED
  BY <1>1, Invariance, PTL

(***************************************************************************)
(* The Telnet parser on streams of any length, cut into any segments.      *)
(***************************************************************************)
ParserStates == {"NORMAL", "CMD", "OPTION", "SB", "SB_IAC"}
Parser == [state : ParserStates, keys : Seq(Tel!Bytes)]

\* Concatenation of keys, known by its laws.
Cat(a, b) == a \o b

LEMMA CatLaws ==
  /\ \A a, b \in Seq(Tel!Bytes) : Cat(a, b) \in Seq(Tel!Bytes)
  /\ \A a, b, c \in Seq(Tel!Bytes) : Cat(Cat(a, b), c) = Cat(a, Cat(b, c))
  /\ \A a \in Seq(Tel!Bytes) : Cat(a, <<>>) = a /\ Cat(<<>>, a) = a
<1>1. \A a, b \in Seq(Tel!Bytes) : Cat(a, b) \in Seq(Tel!Bytes)
  BY ConcatProperties DEF Cat
<1>2. \A a, b, c \in Seq(Tel!Bytes) : Cat(Cat(a, b), c) = Cat(a, Cat(b, c))
  BY ConcatAssociative DEF Cat
<1>3. \A a \in Seq(Tel!Bytes) : Cat(a, <<>>) = a /\ Cat(<<>>, a) = a
  BY ConcatEmptySeq DEF Cat
<1> QED
  BY <1>1, <1>2, <1>3

LEMMA ParsedFields ==
  ASSUME NEW w, NEW byte
  PROVE  /\ Tel!Parsed(w, byte).state = Tel!iac_state(w.state, byte)
         /\ Tel!Parsed(w, byte).keys = Cat(w.keys, Tel!Key(w.state, byte))
BY DEF Tel!Parsed, Cat

LEMMA KeyType ==
  ASSUME NEW state, NEW byte \in Tel!Bytes
  PROVE  Tel!Key(state, byte) \in Seq(Tel!Bytes)
<1>1. <<byte>> \in Seq(Tel!Bytes) /\ <<>> \in Seq(Tel!Bytes)
  OBVIOUS
<1> QED
  BY <1>1 DEF Tel!Key

LEMMA ParsedType ==
  ASSUME NEW w \in Parser, NEW byte \in Tel!Bytes
  PROVE  Tel!Parsed(w, byte) \in Parser
<1>1. Tel!iac_state(w.state, byte) \in ParserStates
  BY DEF Tel!iac_state, Parser, ParserStates
<1>2. Tel!Key(w.state, byte) \in Seq(Tel!Bytes)
  BY KeyType
<1>3. w.keys \in Seq(Tel!Bytes)
  BY DEF Parser
<1>4. Cat(w.keys, Tel!Key(w.state, byte)) \in Seq(Tel!Bytes)
  BY <1>2, <1>3, CatLaws
<1> QED
  BY <1>1, <1>4 DEF Tel!Parsed, Parser, Cat

\* What a segment is parsed to, byte by byte.
LEMMA ParseSteps ==
  ASSUME NEW s \in ParserStates, NEW bytes \in Seq(Tel!Bytes)
  PROVE  /\ Tel!Parse(s, bytes) \in [0 .. Len(bytes) -> Parser]
         /\ Tel!Parse(s, bytes)[0] = [state |-> s, keys |-> <<>>]
         /\ \A n \in 1 .. Len(bytes) :
              Tel!Parse(s, bytes)[n] = Tel!Parsed(Tel!Parse(s, bytes)[n - 1], bytes[n])
<1> DEFINE N    == Len(bytes)
           base == [state |-> s, keys |-> <<>>]
           G    == [k \in 1 .. N |-> [w \in Parser |-> Tel!Parsed(w, bytes[k])]]
           h(f) == [n \in 0 .. N |-> IF n = 0 THEN base ELSE Tel!Parsed(f[n - 1], bytes[n])]
<1>1. N \in Nat /\ \A k \in 1 .. N : bytes[k] \in Tel!Bytes
  OBVIOUS
<1>2. base \in Parser
  BY DEF Parser
<1>3. G \in [1 .. N -> [Parser -> Parser]]
  BY <1>1, ParsedType
<1>4. \E f : Follows(f, N, Parser, base, G)
  BY <1>1, <1>2, <1>3, Recursion DEF Steps
<1>5. PICK f : Follows(f, N, Parser, base, G)
  BY <1>4
<1>6. ASSUME NEW g
      PROVE  g = h(g) => Tel!Parse(s, bytes) = h(Tel!Parse(s, bytes))
  BY DEF Tel!Parse
<1>7. ASSUME NEW n \in 1 .. N
      PROVE  f[n - 1] \in Parser /\ f[n] = Tel!Parsed(f[n - 1], bytes[n])
  <2>1. n - 1 \in 0 .. N /\ f[n] = G[n][f[n - 1]] /\ f \in [0 .. N -> Parser]
    BY <1>1, <1>5, <1>7 DEF Follows
  <2> QED
    BY <2>1
<1>8. f = h(f)
  <2>1. f \in [0 .. N -> Parser] /\ f[0] = base
    BY <1>5 DEF Follows
  <2>2. \A n \in 0 .. N : n = 0 \/ n \in 1 .. N
    BY <1>1
  <2>3. \A n \in 0 .. N : f[n] = h(f)[n]
    BY <1>7, <2>1, <2>2
  <2> QED
    BY <2>1, <2>3
<1> DEFINE p == Tel!Parse(s, bytes)
<1>9. p = h(p)
  BY <1>6, <1>8
<1> HIDE DEF p
<1>10. p[0] = base /\ \A n \in 1 .. N : p[n] = Tel!Parsed(p[n - 1], bytes[n])
  <2>1. \A n \in 0 .. N : p[n] = h(p)[n]
    BY <1>9
  <2>2. 0 \in 0 .. N /\ \A n \in 1 .. N : n \in 0 .. N /\ n # 0
    BY <1>1
  <2> QED
    BY <2>1, <2>2
<1>11. p \in [0 .. N -> Parser]
  <2> DEFINE S == {n \in 0 .. N : p[n] \in Parser}
  <2>1. 0 \in S
    BY <1>1, <1>2, <1>10
  <2>2. \A n \in 1 .. N : n - 1 \in S => n \in S
    BY <1>1, <1>10, ParsedType
  <2>3. \A n \in 0 .. N : n \in S
    BY <1>1, <2>1, <2>2, CountUp
  <2>4. \A n \in 0 .. N : p[n] \in Parser
    BY <2>3
  <2>5. p = [n \in 0 .. N |-> p[n]]
    BY <1>9
  <2> QED
    BY <2>4, <2>5
<1> QED
  BY <1>10, <1>11 DEF p

\* `part` is what comes in `bytes` from byte `at` on, up to byte `to`.
Slice(bytes, at, part, to) ==
  /\ at \in Nat /\ to = at + Len(part) /\ to <= Len(bytes)
  /\ \A k \in 1 .. Len(part) : bytes[at + k] = part[k]

\* From `at` to `to` the parse p does what it would do with that part alone.
GoesOn(p, n, at, part, to) ==
  LET q == Tel!Segment(p[at].state, part) IN
  /\ at \in 0 .. n /\ to \in 0 .. n /\ p[at] \in Parser /\ q \in Parser
  /\ p[to] = [state |-> q.state, keys |-> Cat(p[at].keys, q.keys)]

\* The state is all that the parser takes from one part of a stream to the next.
LEMMA ParseFrom ==
  ASSUME NEW s \in ParserStates, NEW bytes \in Seq(Tel!Bytes),
         NEW part \in Seq(Tel!Bytes), NEW at, NEW to, Slice(bytes, at, part, to)
  PROVE  GoesOn(Tel!Parse(s, bytes), Len(bytes), at, part, to)
<1> DEFINE p == Tel!Parse(s, bytes)
           q == Tel!Parse(p[at].state, part)
           n == Len(part)
           S == {k \in 0 .. n : /\ p[at + k].state = q[k].state
                                /\ p[at + k].keys = Cat(p[at].keys, q[k].keys)}
<1>1. /\ p \in [0 .. Len(bytes) -> Parser]
      /\ \A k \in 1 .. Len(bytes) : p[k] = Tel!Parsed(p[k - 1], bytes[k])
  BY ParseSteps
<1>2. at \in Nat /\ to = at + n /\ n \in Nat /\ to <= Len(bytes) /\ Len(bytes) \in Nat
      /\ \A k \in 1 .. n : bytes[at + k] = part[k] /\ part[k] \in Tel!Bytes
  BY DEF Slice
<1>3. at \in 0 .. Len(bytes) /\ p[at] \in Parser
  <2> HIDE DEF p
  <2>1. at \in 0 .. Len(bytes)
    BY <1>2
  <2> QED
    BY <1>1, <2>1
<1>4. /\ q \in [0 .. n -> Parser] /\ q[0] = [state |-> p[at].state, keys |-> <<>>]
      /\ \A k \in 1 .. n : q[k] = Tel!Parsed(q[k - 1], part[k])
  <2> DEFINE state == p[at].state
  <2>1. state \in ParserStates
    BY <1>3 DEF Parser
  <2> HIDE DEF state
  <2>2. LET r == Tel!Parse(state, part) IN
          /\ r \in [0 .. Len(part) -> Parser] /\ r[0] = [state |-> state, keys |-> <<>>]
          /\ \A k \in 1 .. Len(part) : r[k] = Tel!Parsed(r[k - 1], part[k])
    BY <2>1, ParseSteps
  <2> QED
    BY <2>2 DEF state
<1> HIDE DEF p, q, n
<1>5. 0 \in S
  <2>1. p[at].keys \in Seq(Tel!Bytes) /\ at + 0 = at /\ 0 \in 0 .. n
    BY <1>2, <1>3 DEF Parser
  <2>2. q[0].keys = <<>> /\ q[0].state = p[at].state
    BY <1>4
  <2>3. Cat(p[at].keys, <<>>) = p[at].keys
    BY <2>1, CatLaws
  <2> QED
    BY <2>1, <2>2, <2>3
<1>6. ASSUME NEW k \in 1 .. n, k - 1 \in S
      PROVE  k \in S
  <2>1. at + k \in 1 .. Len(bytes) /\ (at + k) - 1 = at + (k - 1) /\ k \in 0 .. n
        /\ k - 1 \in 0 .. n
    BY <1>2
  <2>2. p[at + k] = Tel!Parsed(p[at + (k - 1)], part[k]) /\ q[k] = Tel!Parsed(q[k - 1], part[k])
    BY <1>1, <1>2, <1>4, <2>1
  <2>3. p[at + (k - 1)].state = q[k - 1].state
        /\ p[at + (k - 1)].keys = Cat(p[at].keys, q[k - 1].keys)
    BY <1>6
  <2> DEFINE key  == Tel!Key(q[k - 1].state, part[k])
             a    == p[at].keys
             b    == q[k - 1].keys
  <2>4. /\ p[at + k].state = Tel!iac_state(q[k - 1].state, part[k])
        /\ p[at + k].keys = Cat(Cat(a, b), key)
    BY <2>2, <2>3, ParsedFields
  <2>5. q[k].state = Tel!iac_state(q[k - 1].state, part[k]) /\ q[k].keys = Cat(b, key)
    BY <2>2, ParsedFields
  <2>6. a \in Seq(Tel!Bytes) /\ b \in Seq(Tel!Bytes) /\ key \in Seq(Tel!Bytes)
    BY <1>2, <1>3, <1>4, <2>1, KeyType DEF Parser
  <2> HIDE DEF key, a, b
  <2>7. Cat(Cat(a, b), key) = Cat(a, Cat(b, key))
    BY <2>6, CatLaws
  <2>8. p[at + k].state = q[k].state /\ p[at + k].keys = Cat(a, q[k].keys)
    BY <2>4, <2>5, <2>7
  <2> QED
    BY <2>1, <2>8 DEF a
<1>7. \A k \in 0 .. n : k \in S
  BY <1>2, <1>5, <1>6, CountUp
<1>8. q[n] = Tel!Segment(p[at].state, part) /\ q[n] \in Parser
  <2>1. q[n] \in Parser
    BY <1>2, <1>4
  <2> QED
    BY <2>1 DEF Tel!Segment, q, n
<1>9. to \in 0 .. Len(bytes) /\ p[to] \in Parser
  BY <1>1, <1>2
<1>10. p[to] = [state |-> q[n].state, keys |-> Cat(p[at].keys, q[n].keys)]
  <2>1. n \in 0 .. n
    BY <1>2
  <2> QED
    BY <1>2, <1>7, <1>9, <2>1 DEF Parser
<1> QED
  BY <1>3, <1>8, <1>9, <1>10 DEF p, GoesOn

\* A stream parsed in segments, as telnet_recv() gets it: what is left after each.
Delivered(s, bytes, m, cut, segment, w) ==
  /\ m \in Nat /\ segment \in [1 .. m -> Seq(Tel!Bytes)]
  /\ cut[0] = 0 /\ \A i \in 1 .. m : Slice(bytes, cut[i - 1], segment[i], cut[i])
  /\ w[0] = [state |-> s, keys |-> <<>>]
  /\ \A i \in 1 .. m : LET got == Tel!Segment(w[i - 1].state, segment[i]) IN
       w[i] = [state |-> got.state, keys |-> Cat(w[i - 1].keys, got.keys)]

LEMMA CutAnywhere ==
  ASSUME NEW s \in ParserStates, NEW bytes \in Seq(Tel!Bytes),
         NEW m, NEW cut, NEW segment, NEW w, Delivered(s, bytes, m, cut, segment, w)
  PROVE  \A i \in 0 .. m : w[i] = Tel!Parse(s, bytes)[cut[i]]
<1> DEFINE S == {i \in 0 .. m : w[i] = Tel!Parse(s, bytes)[cut[i]]}
<1>1. m \in Nat
  BY DEF Delivered
<1>2. 0 \in S
  BY <1>1, ParseSteps DEF Delivered
<1>3. ASSUME NEW i \in 1 .. m, i - 1 \in S
      PROVE  i \in S
  <2>1. Slice(bytes, cut[i - 1], segment[i], cut[i]) /\ segment[i] \in Seq(Tel!Bytes)
    BY DEF Delivered
  <2>2. w[i - 1] = Tel!Parse(s, bytes)[cut[i - 1]]
    BY <1>3
  <2>3. LET got == Tel!Segment(w[i - 1].state, segment[i]) IN
          w[i] = [state |-> got.state, keys |-> Cat(w[i - 1].keys, got.keys)]
    BY DEF Delivered
  <2> DEFINE p == Tel!Parse(s, bytes)
             at == cut[i - 1]
             to == cut[i]
             part == segment[i]
  <2> HIDE DEF p, at, to, part
  <2>4. GoesOn(p, Len(bytes), at, part, to)
    <3>1. Slice(bytes, at, part, to) /\ part \in Seq(Tel!Bytes)
      BY <2>1 DEF at, to, part
    <3> QED
      BY <3>1, ParseFrom DEF p
  <2>5. w[i] = p[to]
    BY <2>2, <2>3, <2>4 DEF p, at, to, part, GoesOn
  <2> QED
    BY <1>1, <2>5 DEF p, to
<1>4. \A i \in 0 .. m : i \in S
  BY <1>1, <1>2, <1>3, CountUp
<1> QED
  BY <1>4

Within(inside) == IF inside THEN "SB" ELSE "NORMAL"

\* What a client may send next, in or outside a subnegotiation, and where it is then.
Says(inside, unit, then) ==
  \/ ~inside /\ ~then /\ unit \in Tel!Chars \cup Tel!Options
  \/ ~inside /\ then /\ unit = <<"IAC", "SB">>
  \/ inside /\ then /\ unit \in Tel!Chars
  \/ inside /\ ~then /\ unit = <<"IAC", "SE">>

LEMMA SegmentOf ==
  ASSUME NEW s \in ParserStates, NEW a \in Tel!Bytes, NEW b \in Tel!Bytes, NEW c \in Tel!Bytes
  PROVE  LET s1 == Tel!iac_state(s, a)
             s2 == Tel!iac_state(s1, b)
             s3 == Tel!iac_state(s2, c)
             k1 == Tel!Key(s, a)
             k2 == Cat(k1, Tel!Key(s1, b))
             k3 == Cat(k2, Tel!Key(s2, c))
         IN  /\ Tel!Segment(s, <<a>>) = [state |-> s1, keys |-> k1]
             /\ Tel!Segment(s, <<a, b>>) = [state |-> s2, keys |-> k2]
             /\ Tel!Segment(s, <<a, b, c>>) = [state |-> s3, keys |-> k3]
<1> DEFINE s1 == Tel!iac_state(s, a)
           s2 == Tel!iac_state(s1, b)
           s3 == Tel!iac_state(s2, c)
           k1 == Tel!Key(s, a)
           k2 == Cat(k1, Tel!Key(s1, b))
           k3 == Cat(k2, Tel!Key(s2, c))
<1>1. ASSUME NEW bytes \in Seq(Tel!Bytes), Len(bytes) >= 1, bytes[1] = a
      PROVE  Tel!Parse(s, bytes)[1] = [state |-> s1, keys |-> k1]
  <2> DEFINE p == Tel!Parse(s, bytes)
  <2>1. 1 \in 1 .. Len(bytes) /\ 1 \in 0 .. Len(bytes)
    BY <1>1
  <2>2. p[0] = [state |-> s, keys |-> <<>>] /\ p[1] = Tel!Parsed(p[0], a) /\ p[1] \in Parser
    BY <1>1, <2>1, ParseSteps
  <2> HIDE DEF p
  <2>3. p[1].state = s1 /\ p[1].keys = Cat(<<>>, k1)
    BY <2>2, ParsedFields
  <2>4. Cat(<<>>, k1) = k1
    BY KeyType, CatLaws
  <2>5. p[1] = [state |-> p[1].state, keys |-> p[1].keys]
    BY <2>2 DEF Parser
  <2> QED
    BY <2>3, <2>4, <2>5 DEF p
<1>2. ASSUME NEW bytes \in Seq(Tel!Bytes), Len(bytes) >= 2, bytes[1] = a, bytes[2] = b
      PROVE  Tel!Parse(s, bytes)[2] = [state |-> s2, keys |-> k2]
  <2> DEFINE p == Tel!Parse(s, bytes)
  <2>1. 2 \in 1 .. Len(bytes) /\ 2 \in 0 .. Len(bytes)
    BY <1>2
  <2>2. p[1] = [state |-> s1, keys |-> k1]
    BY <1>1, <1>2
  <2>3. p[2] = Tel!Parsed(p[1], b) /\ p[2] \in Parser
    <3>1. p[2] = Tel!Parsed(p[2 - 1], bytes[2]) /\ p[2] \in Parser
      BY <2>1, ParseSteps
    <3>2. 2 - 1 = 1
      OBVIOUS
    <3> QED
      BY <1>2, <3>1, <3>2
  <2> HIDE DEF p
  <2>4. p[2].state = s2 /\ p[2].keys = k2
    BY <2>2, <2>3, ParsedFields
  <2>5. p[2] = [state |-> p[2].state, keys |-> p[2].keys]
    BY <2>3 DEF Parser
  <2> QED
    BY <2>4, <2>5 DEF p
<1>3. ASSUME NEW bytes \in Seq(Tel!Bytes), Len(bytes) >= 3,
             bytes[1] = a, bytes[2] = b, bytes[3] = c
      PROVE  Tel!Parse(s, bytes)[3] = [state |-> s3, keys |-> k3]
  <2> DEFINE p == Tel!Parse(s, bytes)
  <2>1. 3 \in 1 .. Len(bytes) /\ 3 \in 0 .. Len(bytes)
    BY <1>3
  <2>2. p[2] = [state |-> s2, keys |-> k2]
    BY <1>2, <1>3
  <2>3. p[3] = Tel!Parsed(p[2], c) /\ p[3] \in Parser
    <3>1. p[3] = Tel!Parsed(p[3 - 1], bytes[3]) /\ p[3] \in Parser
      BY <2>1, ParseSteps
    <3>2. 3 - 1 = 2
      OBVIOUS
    <3> QED
      BY <1>3, <3>1, <3>2
  <2> HIDE DEF p
  <2>4. p[3].state = s3 /\ p[3].keys = k3
    BY <2>2, <2>3, ParsedFields
  <2>5. p[3] = [state |-> p[3].state, keys |-> p[3].keys]
    BY <2>3 DEF Parser
  <2> QED
    BY <2>4, <2>5 DEF p
<1> HIDE DEF s1, s2, s3, k1, k2, k3
<1>4. Tel!Segment(s, <<a>>) = [state |-> s1, keys |-> k1]
  <2> DEFINE bytes == <<a>>
  <2>1. bytes \in Seq(Tel!Bytes) /\ Len(bytes) = 1 /\ bytes[1] = a
    OBVIOUS
  <2> HIDE DEF bytes
  <2>2. Tel!Parse(s, bytes)[1] = [state |-> s1, keys |-> k1]
    <3>1. Len(bytes) >= 1
      BY <2>1
    <3> QED
      BY ONLY <1>1, <2>1, <3>1
  <2>3. Tel!Segment(s, bytes) = [state |-> s1, keys |-> k1]
    BY <2>1, <2>2 DEF Tel!Segment
  <2> QED
    BY <2>3 DEF bytes
<1>5. Tel!Segment(s, <<a, b>>) = [state |-> s2, keys |-> k2]
  <2> DEFINE bytes == <<a, b>>
  <2>1. bytes \in Seq(Tel!Bytes) /\ Len(bytes) = 2 /\ bytes[1] = a /\ bytes[2] = b
    OBVIOUS
  <2> HIDE DEF bytes
  <2>2. Tel!Parse(s, bytes)[2] = [state |-> s2, keys |-> k2]
    BY <1>2, <2>1
  <2>3. Tel!Segment(s, bytes) = [state |-> s2, keys |-> k2]
    BY <2>1, <2>2 DEF Tel!Segment
  <2> QED
    BY <2>3 DEF bytes
<1>6. Tel!Segment(s, <<a, b, c>>) = [state |-> s3, keys |-> k3]
  <2> DEFINE bytes == <<a, b, c>>
  <2>1. bytes \in Seq(Tel!Bytes) /\ Len(bytes) = 3 /\ bytes[1] = a /\ bytes[2] = b /\ bytes[3] = c
    OBVIOUS
  <2> HIDE DEF bytes
  <2>2. Tel!Parse(s, bytes)[3] = [state |-> s3, keys |-> k3]
    BY <1>3, <2>1
  <2>3. Tel!Segment(s, bytes) = [state |-> s3, keys |-> k3]
    BY <2>1, <2>2 DEF Tel!Segment
  <2> QED
    BY <2>3 DEF bytes
<1> QED
  BY <1>4, <1>5, <1>6 DEF s1, s2, s3, k1, k2, k3

\* Parsed by itself, what a client says takes the parser where the client is, and
\* hands over what it typed.
LEMMA SaidIsParsed ==
  ASSUME NEW inside \in BOOLEAN, NEW then \in BOOLEAN, NEW unit, Says(inside, unit, then)
  PROVE  /\ unit \in Seq(Tel!Bytes)
         /\ Tel!Segment(Within(inside), unit)
              = [state |-> Within(then), keys |-> IF inside THEN <<>> ELSE Tel!Typed(unit)]
<1> DEFINE Right == /\ unit \in Seq(Tel!Bytes)
                    /\ Tel!Segment(Within(inside), unit)
                         = [state |-> Within(then), keys |-> IF inside THEN <<>> ELSE Tel!Typed(unit)]
<1> USE DEF Within
<1>1. Within(inside) \in ParserStates
  BY DEF ParserStates
<1>2. Cat(<<>>, <<>>) = <<>> /\ \A x \in Tel!Bytes : Cat(<<>>, <<x>>) = <<x>>
  <2>1. <<>> \in Seq(Tel!Bytes) /\ \A x \in Tel!Bytes : <<x>> \in Seq(Tel!Bytes)
    OBVIOUS
  <2> QED
    BY <2>1, CatLaws
<1>3. ASSUME NEW x \in Tel!Bytes \ {"IAC"}, unit = <<x>>, then = inside
      PROVE  Right
  <2>1. unit \in Seq(Tel!Bytes)
    BY <1>3
  <2>2. Tel!Segment(Within(inside), <<x>>)
          = [state |-> Tel!iac_state(Within(inside), x), keys |-> Tel!Key(Within(inside), x)]
    BY <1>1, SegmentOf
  <2>3. Tel!iac_state(Within(inside), x) = Within(then)
    BY <1>3 DEF Tel!iac_state
  <2>4. Tel!Key(Within(inside), x) = IF inside THEN <<>> ELSE Tel!Typed(unit)
    <3>1. unit \in Tel!Chars /\ Tel!Last(unit) = x
      BY <1>3 DEF Tel!Chars, Tel!Last
    <3> QED
      BY <1>3, <3>1 DEF Tel!Key, Tel!iac_process, Tel!Typed
  <2> QED
    BY <1>3, <2>1, <2>2, <2>3, <2>4
<1>4. ASSUME NEW x \in Tel!Bytes, NEW y \in Tel!Bytes, unit = <<x, y>>,
             Tel!iac_state(Tel!iac_state(Within(inside), x), y) = Within(then),
             Tel!Key(Within(inside), x) = <<>>,
             Tel!Key(Tel!iac_state(Within(inside), x), y)
               = IF inside THEN <<>> ELSE Tel!Typed(unit)
      PROVE  Right
  <2> DEFINE z == Tel!iac_state(Within(inside), x)
             k == Tel!Key(z, y)
  <2>1. unit \in Seq(Tel!Bytes)
    BY <1>4
  <2>2. Tel!Segment(Within(inside), <<x, y>>)
          = [state |-> Tel!iac_state(z, y), keys |-> Cat(Tel!Key(Within(inside), x), k)]
    BY <1>1, SegmentOf
  <2>3. Cat(<<>>, k) = k
    BY KeyType, CatLaws
  <2> QED
    BY <1>4, <2>1, <2>2, <2>3
<1>5. \A x : <<"IAC", x>> \in Tel!Chars <=> x = "IAC"
  BY DEF Tel!Chars
<1>6. CASE unit = <<"IAC", "IAC">> /\ then = inside
  <2>1. "IAC" \in Tel!Bytes /\ Tel!Last(unit) = "IAC" /\ unit \in Tel!Chars
    BY <1>5, <1>6 DEF Tel!Bytes, Tel!Last
  <2>2. Tel!Typed(unit) = <<"IAC">>
    BY <2>1 DEF Tel!Typed
  <2> QED
    BY <1>4, <1>6, <2>1, <2>2 DEF Tel!iac_state, Tel!Key, Tel!iac_process
<1>7. CASE /\ ~inside /\ \E x \in Tel!Bytes \ {"IAC"} :
                 unit = <<"IAC", x>> /\ x # "NEG" /\ then = (x = "SB")
  <2>1. PICK x \in Tel!Bytes \ {"IAC"} : unit = <<"IAC", x>> /\ x # "NEG" /\ then = (x = "SB")
    BY <1>7
  <2>2. Tel!Typed(unit) = <<>>
    BY <1>5, <2>1 DEF Tel!Typed
  <2>3. "IAC" \in Tel!Bytes
    BY DEF Tel!Bytes
  <2> QED
    BY <1>4, <1>7, <2>1, <2>2, <2>3 DEF Tel!iac_state, Tel!Key, Tel!iac_process
<1>8. CASE ~inside /\ ~then /\ \E x \in Tel!Bytes : unit = <<"IAC", "NEG", x>>
  <2>1. PICK x \in Tel!Bytes : unit = <<"IAC", "NEG", x>>
    BY <1>8
  <2>2. unit \notin Tel!Chars /\ Tel!Typed(unit) = <<>>
    BY <2>1 DEF Tel!Chars, Tel!Typed
  <2>3. "IAC" \in Tel!Bytes /\ "NEG" \in Tel!Bytes /\ unit \in Seq(Tel!Bytes)
    BY <2>1 DEF Tel!Bytes
  <2>4. LET s2 == Tel!iac_state(Tel!iac_state("NORMAL", "IAC"), "NEG") IN
          /\ s2 = "OPTION" /\ Tel!iac_state(s2, x) = "NORMAL"
          /\ Tel!Key("NORMAL", "IAC") = <<>>
          /\ Tel!Key(Tel!iac_state("NORMAL", "IAC"), "NEG") = <<>> /\ Tel!Key(s2, x) = <<>>
    BY DEF Tel!iac_state, Tel!Key, Tel!iac_process
  <2> DEFINE s1 == Tel!iac_state("NORMAL", "IAC")
             s2 == Tel!iac_state(s1, "NEG")
  <2>5. Tel!Segment("NORMAL", <<"IAC", "NEG", x>>)
          = [state |-> Tel!iac_state(s2, x),
             keys |-> Cat(Cat(Tel!Key("NORMAL", "IAC"), Tel!Key(s1, "NEG")), Tel!Key(s2, x))]
    <3>1. "NORMAL" \in ParserStates
      BY DEF ParserStates
    <3>2. ASSUME NEW a \in Tel!Bytes, NEW b \in Tel!Bytes, NEW t1, NEW t2,
                 t1 = Tel!iac_state("NORMAL", a), t2 = Tel!iac_state(t1, b)
          PROVE  Tel!Segment("NORMAL", <<a, b, x>>)
                   = [state |-> Tel!iac_state(t2, x),
                      keys |-> Cat(Cat(Tel!Key("NORMAL", a), Tel!Key(t1, b)), Tel!Key(t2, x))]
      BY <3>1, <3>2, SegmentOf
    <3> QED
      BY <2>3, <3>2
  <2> QED
    BY <1>2, <1>8, <2>1, <2>2, <2>3, <2>4, <2>5
<1>9. CASE inside /\ ~then /\ unit = <<"IAC", "SE">>
  <2>1. "IAC" \in Tel!Bytes /\ "SE" \in Tel!Bytes
    BY DEF Tel!Bytes
  <2> QED
    BY <1>4, <1>9, <2>1 DEF Tel!iac_state, Tel!Key, Tel!iac_process
<1>10. CASE ~inside /\ then /\ unit = <<"IAC", "SB">>
  BY <1>7, <1>10 DEF Tel!Bytes
<1>11. CASE unit \in Tel!Chars /\ (then <=> inside)
  BY <1>3, <1>6, <1>11 DEF Tel!Chars
<1>12. CASE ~inside /\ ~then /\ unit \in Tel!Options
  BY <1>7, <1>8, <1>12 DEF Tel!Options
<1> QED
  BY <1>9, <1>10, <1>11, <1>12 DEF Says

\* A stream of n units: where each ends, whether a subnegotiation is open there, and
\* the characters typed so far.
Stream(bytes, n, at, unit, inside, typed) ==
  /\ n \in Nat /\ unit \in [1 .. n -> Seq(Tel!Bytes)]
  /\ inside \in [0 .. n -> BOOLEAN] /\ inside[0] = FALSE
  /\ at[0] = 0 /\ typed[0] = <<>>
  /\ \A i \in 1 .. n :
       /\ Slice(bytes, at[i - 1], unit[i], at[i])
       /\ Says(inside[i - 1], unit[i], inside[i])
       /\ typed[i] = IF inside[i - 1] THEN typed[i - 1]
                     ELSE Cat(typed[i - 1], Tel!Typed(unit[i]))

LEMMA StreamParsed ==
  ASSUME NEW bytes \in Seq(Tel!Bytes), NEW n, NEW at, NEW unit, NEW inside, NEW typed,
         Stream(bytes, n, at, unit, inside, typed)
  PROVE  \A j \in 0 .. n : Tel!Parse("NORMAL", bytes)[at[j]]
                             = [state |-> Within(inside[j]), keys |-> typed[j]]
<1> DEFINE p == Tel!Parse("NORMAL", bytes)
           S == {j \in 0 .. n : p[at[j]] = [state |-> Within(inside[j]), keys |-> typed[j]]}
<1>1. n \in Nat /\ "NORMAL" \in ParserStates
  BY DEF Stream, ParserStates
<1>2. 0 \in S
  <2>1. p[0] = [state |-> "NORMAL", keys |-> <<>>]
    BY <1>1, ParseSteps
  <2> QED
    BY <1>1, <2>1 DEF Stream, Within
<1>3. ASSUME NEW i \in 1 .. n, i - 1 \in S
      PROVE  i \in S
  <2> DEFINE u    == unit[i]
             was  == inside[i - 1]
             is   == inside[i]
             from == at[i - 1]
             to   == at[i]
             before == typed[i - 1]
  <2>1. /\ Slice(bytes, from, u, to) /\ Says(was, u, is) /\ u \in Seq(Tel!Bytes)
        /\ was \in BOOLEAN /\ is \in BOOLEAN
        /\ typed[i] = IF was THEN before ELSE Cat(before, Tel!Typed(u))
    <3>1. i - 1 \in 0 .. n /\ i \in 0 .. n
      BY <1>1
    <3> QED
      BY <3>1 DEF Stream
  <2>2. p[from] = [state |-> Within(was), keys |-> before]
    BY <1>3
  <2> HIDE DEF p, u, was, is, from, to, before
  <2>3. GoesOn(p, Len(bytes), from, u, to)
    BY <1>1, <2>1, ParseFrom DEF p
  <2>4. Tel!Segment(Within(was), u)
          = [state |-> Within(is), keys |-> IF was THEN <<>> ELSE Tel!Typed(u)]
    BY <2>1, SaidIsParsed
  <2>5. p[to] = [state |-> Within(is),
                 keys  |-> Cat(before, IF was THEN <<>> ELSE Tel!Typed(u))]
    BY <2>2, <2>3, <2>4 DEF GoesOn
  <2>6. Cat(before, <<>>) = before
    BY <2>2, <2>3, CatLaws DEF GoesOn, Parser
  <2>7. p[to] = [state |-> Within(is), keys |-> typed[i]]
    BY <2>1, <2>5, <2>6
  <2> QED
    BY <1>1, <2>7 DEF to, is
<1>4. \A j \in 0 .. n : j \in S
  BY <1>1, <1>2, <1>3, CountUp
<1> QED
  BY <1>4

\* The CLI gets the characters typed and nothing of the negotiation, however long the
\* stream and its subnegotiations are and wherever it is cut into segments: when a
\* segment ends where a unit does, the parser is where the client is, and the keys
\* handed over are those typed ("true if byte is normal data to pass to keyIn()",
\* telnet_server.c:122).
THEOREM KeysAreTyped ==
  ASSUME NEW bytes \in Seq(Tel!Bytes),
         NEW n, NEW at, NEW unit, NEW inside, NEW typed,
         Stream(bytes, n, at, unit, inside, typed),
         NEW m, NEW cut, NEW segment, NEW w,
         Delivered("NORMAL", bytes, m, cut, segment, w),
         NEW i \in 0 .. m, NEW j \in 0 .. n, cut[i] = at[j]
  PROVE  w[i] = [state |-> Within(inside[j]), keys |-> typed[j]]
<1>1. "NORMAL" \in ParserStates
  BY DEF ParserStates
<1>2. w[i] = Tel!Parse("NORMAL", bytes)[cut[i]]
  BY <1>1, CutAnywhere
<1>3. Tel!Parse("NORMAL", bytes)[at[j]] = [state |-> Within(inside[j]), keys |-> typed[j]]
  BY StreamParsed
<1> QED
  BY <1>2, <1>3
=============================================================================
