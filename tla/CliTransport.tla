---------------------------- MODULE CliTransport -----------------------------
(***************************************************************************)
(* src/Robot/cli/cli_transport.c and cli_transport_cdc.c: whoever claimed  *)
(* EmitEvent last drains the CLI's output queue; the USB CDC transport,    *)
(* whose transmit FIFO can be full. What is printed is reduced to whether  *)
(* the queue holds any of it.                                              *)
(***************************************************************************)
EXTENDS Integers

VARIABLES
  emitq,               \* "empty", "old": only output printed before the last
                       \*   claim by another transport, or "new"
  event,               \* EmitEvent is queued
  emitter,             \* who it calls: "none", "cdc", "http", "telnet"
  emit_retry_pending,
  retries,             \* cdc_emit_action actions queued
  fifo_full            \* the CDC transmit FIFO has no room

cli == <<emitq, event, emitter>>
cdc == <<emit_retry_pending, retries, fifo_full>>

TransportInit ==
  /\ emitq = "empty" /\ event = FALSE /\ emitter = "none"
  /\ emit_retry_pending = FALSE /\ retries = 0 /\ fifo_full = FALSE

\* when(EmitEvent, ...).
Claimed(by) ==
  /\ emitter' = by
  /\ emitq' = IF emitter # by /\ emitq = "new" THEN "old" ELSE emitq

CliPrints ==
  /\ emitq' = "new" /\ event' = TRUE
  /\ UNCHANGED <<emitter, cdc>>

cdc_claim == Claimed("cdc") /\ UNCHANGED <<event, cdc>>

\* A terminal that opens the port claims it, and a prompt is printed.
tud_cdc_line_state_cb ==
  /\ emitter' = "cdc" /\ emitq' = "new" /\ event' = TRUE
  /\ UNCHANGED cdc

\* The retry is queued unless one is.
Retry(pending, queued) ==
  /\ emit_retry_pending' = TRUE
  /\ retries' = IF pending THEN queued ELSE queued + 1

\* cdc_emit() from flag and queue: all goes out, or the FIFO fills up.
cdc_emit(pending, queued) ==
  \/ /\ emitq = "empty" \/ ~fifo_full
     /\ emitq' = "empty" /\ fifo_full' \in {fifo_full, emitq # "empty"}
     /\ emit_retry_pending' = pending /\ retries' = queued
  \/ /\ emitq # "empty"
     /\ fifo_full' = TRUE /\ UNCHANGED emitq
     /\ Retry(pending, queued)

cdc_emit_action ==
  /\ retries > 0
  /\ cdc_emit(FALSE, retries - 1)
  /\ UNCHANGED <<event, emitter>>

tud_cdc_tx_complete_cb ==
  /\ fifo_full' = FALSE
  /\ IF emitq # "empty" /\ ~emit_retry_pending
     THEN Retry(emit_retry_pending, retries)
     ELSE UNCHANGED <<emit_retry_pending, retries>>
  /\ UNCHANGED cli
=============================================================================
