-------------------------------- MODULE Http ---------------------------------
(***************************************************************************)
(* src/Robot/net/http/http_server.c: the connection slots under lwIP's     *)
(* callbacks, the event streams bound to them, and the terminal stream     *)
(* that drains the CLI's output.                                           *)
(*                                                                         *)
(* A handler that changes several of these does so as an operator from one *)
(* record of them to the next, and one that a loop may call takes the set  *)
(* of slots it is called for. Requests are reduced to what they ask for,   *)
(* and what is written to units: an event or the headers of a stream are   *)
(* one, a response is any of Lengths.                                      *)
(***************************************************************************)
EXTENDS Lwip, CliTransport

CONSTANTS
  HTTP_MAX_CONNECTIONS,
  SND_BUF,           \* what a connection can have in flight (TCP_SND_BUF)
  Lengths,           \* of the board's responses
  Paths,             \* the paths bound with http_sse_bind()
  MaxKeepalives      \* bound on queued http_sse_keepalive actions

ASSUME HttpAssumption ==
  /\ HTTP_MAX_CONNECTIONS \in Nat /\ MaxKeepalives \in Nat
  /\ SND_BUF \in Nat \ {0} /\ Lengths \subseteq Nat

Slots == 1 .. HTTP_MAX_CONNECTIONS

VARIABLES
  conns,             \* per slot: pcb, state and what is left to send
  listener,
  chan,              \* per path: its channel's pcb
  term_conn,         \* a slot, 0 for NULL
  keepalives,        \* http_sse_keepalive actions queued
  flight,            \* per pcb: what is written and not acknowledged; only
                     \*   while there is some will the sent callback come
  starved            \* history: the pcbs with nothing in flight because lwIP
                     \*   had no memory for the last write

httpvars == <<conns, listener, chan, term_conn, keepalives, flight, starved>>

Idle == [pcb |-> NULL, state |-> "IDLE", left |-> 0]

HttpInit ==
  /\ conns = [c \in Slots |-> Idle] /\ listener = FALSE
  /\ chan = [k \in Paths |-> NULL] /\ term_conn = 0 /\ keepalives = 0
  /\ flight = [p \in Pcbs |-> 0] /\ starved = {}

Now == [conns |-> conns, chan |-> chan, term_conn |-> term_conn,
        owner |-> owner, flight |-> flight, starved |-> starved]

Becomes(w) ==
  /\ conns' = w.conns /\ chan' = w.chan /\ term_conn' = w.term_conn
  /\ owner' = w.owner /\ flight' = w.flight /\ starved' = w.starved

(***************************************************************************)
(* tcp_write(). lwIP's memory is shared by all connections, so it may      *)
(* refuse a write at any time, on one that has nothing in flight too.      *)
(***************************************************************************)
Room(w, p) == SND_BUF - w.flight[p]

tcp_write(w, p, n, granted) ==
  IF granted /\ n <= Room(w, p)
  THEN [w EXCEPT !.flight[p] = w.flight[p] + n, !.starved = w.starved \ {p}]
  ELSE [w EXCEPT !.starved = w.starved \cup {q \in {p} : w.flight[q] = 0}]

\* The blocks ps are closed, or gone.
Gone(w, ps) ==
  [Released(w, ps) EXCEPT
     !.flight  = [p \in Pcbs |-> IF p \in ps THEN 0 ELSE w.flight[p]],
     !.starved = w.starved \ ps]

(***************************************************************************)
(* Slots.                                                                  *)
(***************************************************************************)
Freeable == {c \in Slots : conns[c].state = "IDLE"}

BlocksOf(w, cs) == {w.conns[c].pcb : c \in cs}

conn_free(w, cs) ==
  [w EXCEPT !.conns = [c \in Slots |-> IF c \in cs THEN Idle ELSE w.conns[c]]]

\* Mutant of clear_sse_for_conn: only the terminal is let go.
ClearTermOnly(w, cs) == [w EXCEPT !.term_conn = IF @ \in cs THEN 0 ELSE @]

clear_sse_for_conn(w, cs) ==
  [w EXCEPT !.term_conn = IF w.term_conn \in cs THEN 0 ELSE w.term_conn,
            !.chan = [k \in Paths |-> IF w.chan[k] \in BlocksOf(w, cs) THEN NULL ELSE w.chan[k]]]

Open(w, cs) == {c \in cs : w.conns[c].pcb # NULL}

\* Mutant of conn_close: the block is closed, the slot stays taken.
CloseKeepsSlot(w, cs) ==
  Gone(clear_sse_for_conn(w, Open(w, cs)), BlocksOf(w, Open(w, cs)))

conn_close(w, cs) ==
  Gone(conn_free(clear_sse_for_conn(w, Open(w, cs)), Open(w, cs)), BlocksOf(w, Open(w, cs)))

\* The upgrade to an event stream, its headers written.
Streams(w, c, granted) ==
  tcp_write([w EXCEPT !.conns[c].state = "SSE"], w.conns[c].pcb, 1, granted)

\* A part of the response, or all of it, is written.
Written(w, c, n) ==
  [tcp_write(w, w.conns[c].pcb, n, TRUE) EXCEPT !.conns[c].left = w.conns[c].left - n]

\* The loop of send_chunk(): one write fills the room there is or sends the rest.
Chunk(w, c) == Min({w.conns[c].left, Room(w, w.conns[c].pcb)})

\* Mutant of Sent: what does not fit as a whole is not written.
SentWhole(w, c, granted) ==
  IF Chunk(w, c) < w.conns[c].left THEN w
  ELSE IF granted THEN Written(w, c, Chunk(w, c))
  ELSE tcp_write(w, w.conns[c].pcb, Chunk(w, c), FALSE)

Sent(w, c, granted) ==
  IF Chunk(w, c) = 0 THEN w
  ELSE IF granted THEN Written(w, c, Chunk(w, c))
  ELSE tcp_write(w, w.conns[c].pcb, Chunk(w, c), FALSE)

\* send_chunk() and the close that follows it once all is written.
send_chunk(w, c, granted) ==
  LET v == Sent(w, c, granted)
  IN  IF v.conns[c].left = 0 THEN conn_close(v, {c}) ELSE v

\* A response of n units to the request.
Respond(w, c, n, granted) ==
  send_chunk([w EXCEPT !.conns[c].state = "SENDING", !.conns[c].left = n], c, granted)

\* Output is pulled for the terminal's connection when there is room, and is lost
\* when the write is refused. Room is for an event: less than 32 bytes are none.
http_sse_emit(w, granted) ==
  LET p == w.conns[w.term_conn].pcb IN
  IF w.term_conn = 0 \/ emitq = "empty" \/ Room(w, p) = 0
  THEN Becomes(w) /\ UNCHANGED emitq
  ELSE Becomes(tcp_write(w, p, 1, granted)) /\ emitq' \in {emitq, "empty"}

(***************************************************************************)
(* Callbacks.                                                              *)
(***************************************************************************)
\* With no slot free the connection is aborted, which changes nothing here.
http_accept(p) ==
  /\ listener /\ IsFree(p) /\ Freeable # {}
  /\ LET c == Min(Freeable) IN
     Becomes([Now EXCEPT !.conns[c] = [pcb |-> p, state |-> "RECEIVING", left |-> 0],
                         !.owner[p] = <<"http", c>>])
  /\ UNCHANGED <<listener, keepalives, cli>>

\* lwIP calls with the slot that is p's argument.
Called(p, c) == owner[p] = <<"http", c>>

Requested(p, c) == Called(p, c) /\ conns[c].state = "RECEIVING"

\* The other side closes, or data come with an error.
RecvNothing(p, c) ==
  /\ Called(p, c)
  /\ Becomes(conn_close(Now, {c}))
  /\ UNCHANGED <<listener, keepalives, cli>>

RecvTermStream(p, c, granted) ==
  /\ Requested(p, c) /\ keepalives < MaxKeepalives
  /\ LET w == conn_close(Now, {term_conn} \ {0}) IN
     Becomes([Streams(w, c, granted) EXCEPT !.term_conn = c])
  /\ keepalives' = keepalives + 1
  /\ UNCHANGED <<listener, cli>>

\* Answered with http_204.
RecvTermIn(p, c, granted) ==
  /\ Requested(p, c)
  /\ Claimed("http")
  /\ Becomes(Respond(Now, c, 1, granted))
  /\ UNCHANGED <<listener, keepalives, event>>

Holding(pcb) == {c \in Slots : conns[c].pcb = pcb}

Evicted(k) ==
  IF chan[k] = NULL \/ Holding(chan[k]) = {} THEN Now
  ELSE conn_close(Now, {Min(Holding(chan[k]))})

RecvStream(p, c, k, granted) ==
  /\ Requested(p, c)
  /\ Becomes([Streams(Evicted(k), c, granted) EXCEPT !.chan[k] = conns[c].pcb])
  /\ UNCHANGED <<listener, keepalives, cli>>

RecvRoute(p, c, n, granted) ==
  /\ Requested(p, c)
  /\ Becomes(Respond(Now, c, n, granted))
  /\ UNCHANGED <<listener, keepalives, cli>>

\* All or a part of what was written is acknowledged.
http_sent(p, c, rest, granted) ==
  /\ Called(p, c) /\ rest < flight[p]
  /\ LET w == [Now EXCEPT !.flight[p] = rest] IN
     CASE conns[c].state = "SENDING" -> Becomes(send_chunk(w, c, granted)) /\ UNCHANGED emitq
       [] c = term_conn              -> http_sse_emit(w, granted)
       [] OTHER                      -> Becomes(w) /\ UNCHANGED emitq
  /\ UNCHANGED <<listener, keepalives, event, emitter>>

\* The block is gone when lwIP reports the error.
http_err(p, c) ==
  /\ Called(p, c)
  /\ Becomes(Gone(conn_free(clear_sse_for_conn(Now, {c}), {c}), {p}))
  /\ UNCHANGED <<listener, keepalives, cli>>

(***************************************************************************)
(* The robot's side.                                                       *)
(***************************************************************************)
http_sse_push(k, granted) ==
  /\ chan[k] # NULL /\ Room(Now, chan[k]) > 0
  /\ Becomes(tcp_write(Now, chan[k], 1, granted))
  /\ UNCHANGED <<listener, keepalives, cli>>

\* The ping is sent again later whether it was written or not.
http_sse_keepalive(granted) ==
  /\ keepalives > 0
  /\ IF term_conn = 0
     THEN keepalives' = keepalives - 1 /\ Becomes(Now)
     ELSE UNCHANGED keepalives /\ Becomes(tcp_write(Now, conns[term_conn].pcb, 1, granted))
  /\ UNCHANGED <<listener, cli>>

http_server_start ==
  /\ ~listener
  /\ listener' = TRUE
  /\ Becomes(Now) /\ UNCHANGED <<keepalives, cli>>

http_server_stop ==
  /\ Becomes(conn_close([Now EXCEPT !.term_conn = 0, !.chan = [k \in Paths |-> NULL]],
                        Slots \ Freeable))
  /\ listener' = FALSE
  /\ UNCHANGED <<keepalives, cli>>

HttpNext ==
  \/ \E p \in Pcbs, c \in Slots, granted \in BOOLEAN :
       \/ RecvTermStream(p, c, granted) \/ RecvTermIn(p, c, granted)
       \/ \E k \in Paths : RecvStream(p, c, k, granted)
       \/ \E n \in Lengths : RecvRoute(p, c, n, granted)
       \/ \E rest \in 0 .. SND_BUF - 1 : http_sent(p, c, rest, granted)
  \/ \E p \in Pcbs, c \in Slots : RecvNothing(p, c) \/ http_err(p, c)
  \/ \E p \in Pcbs : http_accept(p)
  \/ \E k \in Paths, granted \in BOOLEAN : http_sse_push(k, granted)
  \/ \E granted \in BOOLEAN : http_sse_keepalive(granted)
  \/ http_server_start \/ http_server_stop
=============================================================================
