------------------------------- MODULE Network -------------------------------
(***************************************************************************)
(* The HTTP server, the Telnet server and the CDC transport, which share   *)
(* lwIP's connection blocks and the CLI's output.                          *)
(***************************************************************************)
EXTENDS Http

CONSTANT TELNET_MAX_CONNECTIONS

ASSUME NetworkAssumption == TELNET_MAX_CONNECTIONS \in Nat

VARIABLES sessions, telnet_listener, current_conn

Tel == INSTANCE Telnet WITH conns <- sessions, listener <- telnet_listener

telnet == <<sessions, telnet_listener, current_conn>>
vars   == <<owner, cli, cdc, httpvars, telnet>>

Init == LwipInit /\ TransportInit /\ HttpInit /\ Tel!TelnetInit

\* The CLI's output is offered to whoever claimed it last.
EmitEvent ==
  /\ event /\ event' = FALSE
  /\ UNCHANGED <<emitter, listener, keepalives, sessions, telnet_listener, current_conn>>
  /\ CASE emitter = "http"   -> (\E granted \in BOOLEAN : http_sse_emit(Now, granted))
                                /\ UNCHANGED cdc
       [] emitter = "telnet" -> Tel!telnet_emit /\ Becomes(Now) /\ UNCHANGED cdc
       [] emitter = "cdc"    -> cdc_emit(emit_retry_pending, retries) /\ Becomes(Now)
       [] OTHER              -> UNCHANGED <<emitq, cdc>> /\ Becomes(Now)

Web == HttpNext /\ UNCHANGED <<cdc, telnet>>

Terminals == Tel!TelnetNext /\ UNCHANGED <<cdc, httpvars>>

Usb ==
  /\ CliPrints \/ cdc_claim \/ tud_cdc_line_state_cb \/ cdc_emit_action
     \/ tud_cdc_tx_complete_cb
  /\ UNCHANGED <<owner, httpvars, telnet>>

Next == Web \/ Terminals \/ Usb \/ EmitEvent

Spec == Init /\ [][Next]_vars

-----------------------------------------------------------------------------
\* Slots and connection blocks stay matched, over closes from either side,
\* evictions, errors, stops and blocks used again at once: a callback never
\* gets a freed slot or another connection's, no slot is lost to a connection
\* that is gone, no two hold one block, and a link that is down leaves none.
SlotsMatchPcbs ==
  /\ \A p \in Pcbs, c \in Slots : owner[p] = <<"http", c>> <=> conns[c].pcb = p
  /\ \A p \in Pcbs, c \in Tel!Sessions : owner[p] = <<"telnet", c>> <=> sessions[c].pcb = p
  /\ \A c \in Slots : conns[c].state = "IDLE" <=> conns[c].pcb = NULL
  /\ \A c \in Tel!Sessions : sessions[c].active <=> sessions[c].pcb # NULL
  /\ ~listener => Freeable = Slots
  /\ ~telnet_listener => Tel!Inactive = Tel!Sessions

\* "The engine owns the pcb field": a channel's pcb, or the terminal's, is an
\* open stream, one that no other stream is bound to, and each open stream is
\* bound to something, so that nothing is ever written to a closed block and
\* no slot serves a stream nobody can push to (http_server.h:36-46); output for
\* Telnet goes to a session that is open.
StreamsAreLive ==
  /\ term_conn # 0 => conns[term_conn].state = "SSE"
  /\ current_conn # 0 => sessions[current_conn].active
  /\ \A k \in Paths : chan[k] # NULL => \E c \in Slots : conns[c].pcb = chan[k] /\ conns[c].state = "SSE"
  /\ \A c \in Slots : conns[c].state = "SSE" =>
       Cardinality({k \in Paths : chan[k] = conns[c].pcb}) = IF term_conn = c THEN 0 ELSE 1

\* A connection's sent callback is to come, or lwIP had no memory for the last
\* write to it and there is nothing to wait for.
Woken(p) == flight[p] > 0 \/ p \in starved

\* Whoever waits is woken: a response has something in flight whose
\* acknowledgment sends the rest, a terminal stream is kept alive, at most one
\* CDC retry is queued and the flag says so, and output left in the queue has
\* something coming that takes it on. The one exception is a write that lwIP
\* refuses to a connection with nothing in flight (http_server.c:132, 272-273):
\* output then waits for the next ping, and a response for ever, in its slot
\* until the other side closes.
WaitersAreWoken ==
  /\ \A c \in Slots : conns[c].state = "SENDING" => Woken(conns[c].pcb)
  /\ term_conn # 0 => keepalives > 0
  /\ retries = IF emit_retry_pending THEN 1 ELSE 0
  /\ emitq = "new" /\ ~event =>
       /\ emitter = "cdc" => emit_retry_pending
       /\ emitter = "http" /\ term_conn # 0 => Woken(conns[term_conn].pcb)
=============================================================================
