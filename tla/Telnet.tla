------------------------------- MODULE Telnet --------------------------------
(***************************************************************************)
(* src/Robot/net/telnet/telnet_server.c: the sessions under lwIP's         *)
(* callbacks, the session the CLI's output goes back to, and what of the   *)
(* bytes received the CLI gets to see. Nothing waits for what it writes to *)
(* be acknowledged: telnet_sent() does nothing, and what lwIP refuses is   *)
(* lost.                                                                   *)
(***************************************************************************)
EXTENDS Lwip, CliTransport, SequencesExt

CONSTANT TELNET_MAX_CONNECTIONS

Sessions == 1 .. TELNET_MAX_CONNECTIONS

VARIABLES
  conns,            \* per session: pcb and active
  listener,
  current_conn      \* a session, 0 for NULL

telnetvars == <<conns, listener, current_conn>>

Free == [pcb |-> NULL, active |-> FALSE]

TelnetInit ==
  conns = [c \in Sessions |-> Free] /\ listener = FALSE /\ current_conn = 0

Now == [conns |-> conns, current_conn |-> current_conn, owner |-> owner]

Becomes(w) == conns' = w.conns /\ current_conn' = w.current_conn /\ owner' = w.owner

Inactive == {c \in Sessions : ~conns[c].active}

\* The sessions cs are freed; those of them that have a block are closed.
conn_free(w, cs) ==
  [w EXCEPT !.current_conn = IF w.current_conn \in cs THEN 0 ELSE w.current_conn,
            !.conns = [c \in Sessions |-> IF c \in cs THEN Free ELSE w.conns[c]]]

conn_close(w, cs) ==
  LET open == {c \in cs : w.conns[c].pcb # NULL}
  IN  conn_free(Released(w, {w.conns[c].pcb : c \in open}), open)

Called(p, c) == owner[p] = <<"telnet", c>>

(***************************************************************************)
(* The bytes received, by what telnet_recv() tells apart: "NEG" is WILL,   *)
(* WONT, DO or DONT, "BYTE" any other byte. A session keeps its state from *)
(* one segment to the next and starts at "NORMAL"; nothing else depends on *)
(* it, so it is not among conns' fields.                                   *)
(***************************************************************************)
Bytes == {"IAC", "NEG", "SB", "SE", "NUL", "LF", "BYTE"}

iac_state(state, byte) ==
  CASE state = "NORMAL" -> IF byte = "IAC" THEN "CMD" ELSE "NORMAL"
    [] state = "CMD"    -> IF byte = "NEG" THEN "OPTION" ELSE IF byte = "SB" THEN "SB" ELSE "NORMAL"
    [] state = "OPTION" -> "NORMAL"
    [] state = "SB"     -> IF byte = "IAC" THEN "SB_IAC" ELSE "SB"
    [] state = "SB_IAC" -> IF byte = "SE" THEN "NORMAL" ELSE "SB"

iac_process(state, byte) ==
  \/ state = "NORMAL" /\ byte # "IAC"
  \/ state = "CMD" /\ byte = "IAC"

Key(state, byte) ==
  IF iac_process(state, byte) /\ byte \notin {"NUL", "LF"} THEN <<byte>> ELSE <<>>

\* One byte more: the state it leaves, and the keys handed to the CLI so far.
Parsed(w, byte) ==
  [state |-> iac_state(w.state, byte), keys |-> w.keys \o Key(w.state, byte)]

\* What each byte of a segment leaves.
Parse(state, bytes) ==
  LET after[n \in 0 .. Len(bytes)] ==
        IF n = 0 THEN [state |-> state, keys |-> <<>>] ELSE Parsed(after[n - 1], bytes[n])
  IN  after

Segment(state, bytes) == Parse(state, bytes)[Len(bytes)]

\* With no session free the caller is told so, and its pcb closed.
telnet_accept(p) ==
  /\ listener /\ IsFree(p) /\ Inactive # {}
  /\ LET c == Min(Inactive) IN
     Becomes([Now EXCEPT !.conns[c] = [pcb |-> p, active |-> TRUE],
                         !.owner[p] = <<"telnet", c>>])
  /\ UNCHANGED <<listener, cli>>

telnet_recv(p, c) ==
  /\ Called(p, c)
  /\ current_conn' = c
  /\ Claimed("telnet")
  /\ UNCHANGED <<conns, listener, owner, event>>

\* The other side closes, or the poll timer comes up.
Closes(p, c) ==
  /\ Called(p, c)
  /\ Becomes(conn_close(Now, {c}))
  /\ UNCHANGED <<listener, cli>>

telnet_err(p, c) ==
  /\ Called(p, c)
  /\ Becomes(Released(conn_free(Now, {c}), {p}))
  /\ UNCHANGED <<listener, cli>>

\* What does not fit is lost.
telnet_emit == emitq' = IF current_conn = 0 THEN emitq ELSE "empty"

telnet_server_start ==
  /\ ~listener
  /\ listener' = TRUE
  /\ UNCHANGED <<conns, current_conn, owner, cli>>

telnet_server_stop ==
  /\ Becomes(conn_close(Now, Sessions \ Inactive))
  /\ listener' = FALSE
  /\ UNCHANGED cli

TelnetNext ==
  \/ \E p \in Pcbs, c \in Sessions :
       telnet_recv(p, c) \/ Closes(p, c) \/ telnet_err(p, c)
  \/ \E p \in Pcbs : telnet_accept(p)
  \/ telnet_server_start \/ telnet_server_stop

-----------------------------------------------------------------------------
\* What a client sends, one by one: a character, an escaped 255, a command, an
\* option, a subnegotiation with its 255s escaped.
Payloads == {<<"BYTE">>, <<"SE">>, <<"SB">>, <<"NEG">>, <<"IAC", "IAC">>}
Chars    == {<<b>> : b \in Bytes \ {"IAC"}} \cup {<<"IAC", "IAC">>}
Options  == {<<"IAC", b>> : b \in Bytes \ {"IAC", "NEG", "SB"}} \cup {<<"IAC", "NEG", b>> : b \in Bytes}
Commands == Options \cup
  {<<"IAC", "SB">> \o p \o q \o <<"IAC", "SE">> : p, q \in Payloads \cup {<<>>}}

Typed(unit) == IF unit \in Chars /\ Last(unit) \notin {"NUL", "LF"} THEN <<Last(unit)>> ELSE <<>>

\* Wherever a stream of two is cut into segments, its characters become keys,
\* and nothing else of it does.
OnlyTyped ==
  \A u, v \in Chars \cup Commands :
    LET stream == u \o v IN
    \A cut \in 0 .. Len(stream) :
      LET first  == Segment("NORMAL", SubSeq(stream, 1, cut))
          second == Segment(first.state, SubSeq(stream, cut + 1, Len(stream)))
      IN  second.state = "NORMAL" /\ first.keys \o second.keys = Typed(u) \o Typed(v)
=============================================================================
