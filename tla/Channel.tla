------------------------------ MODULE Channel ------------------------------
(***************************************************************************)
(* One ChannelImpl (channel.go): goroutines Push payloads into the         *)
(* buffered Go channel writechan, the writeloop goroutine takes them out   *)
(* and writes them as frames, and Close ends both by closing writechan and *)
(* firing the closed Event (event.go).                                     *)
(*                                                                         *)
(* Push tests closed.HasFired and then sends, with nothing in between that *)
(* would keep Close away.  A send on a closed Go channel panics, and no    *)
(* caller recovers, so a panic ends the process.                           *)
(*                                                                         *)
(* A payload is a model value; a frame write is one step (frame bytes of   *)
(* concurrent writers are not modelled here).                              *)
(***************************************************************************)
EXTENDS Naturals, Sequences, FiniteSets

CONSTANTS
  Msg,          \* payloads, each pushed at most once
  Pusher,       \* goroutines that call Push
  Cap,          \* capacity of writechan (5 in NewChannel)
  WriteErrors,  \* may WriteFrame or Flush return an error?
  MaxEmpty      \* bound: frames written for the nil payloads of a closed writechan

NoMsg == "nil"

ASSUME ChannelAssumption ==
  /\ Cap \in Nat \ {0} /\ MaxEmpty \in Nat
  /\ WriteErrors \in BOOLEAN /\ NoMsg \notin Msg

VARIABLES
  buf,      \* contents of writechan
  closing,  \* progress of Close: "no", "chan" (writechan closed), "fired"
            \* (closed.fired = 1), "done" (closed.c closed)
  push,     \* each pusher: position in Push, and its payload
  wpc,      \* position of writeloop
  hold,     \* the payload writeloop has received and not yet written: <<>>,
            \* <<m>>; <<>> while it writes the nil payload
  left,     \* chanlen - i of the inner loop
  sent,     \* payloads sent on writechan, in order
  wrote,    \* payloads written as frames, in order
  empties   \* frames written for a nil payload

chan   == <<buf, sent>>
writer == <<wpc, hold, left, wrote, empties>>
vars   == <<chan, closing, push, writer>>

PusherState == [pc : {"idle", "send", "panic"}, msg : Msg \cup {NoMsg}]
Quiet == [pc |-> "idle", msg |-> NoMsg]

WriterPc == {"select", "write", "len", "drain", "writeNext",
             "returned", "failed"}

Init ==
  /\ buf = <<>> /\ sent = <<>> /\ closing = "no"
  /\ push = [p \in Pusher |-> Quiet]
  /\ wpc = "select" /\ hold = <<>> /\ left = 0 /\ wrote = <<>> /\ empties = 0

-----------------------------------------------------------------------------
(* Push *)

Used == {push[p].msg : p \in Pusher} \cup {sent[i] : i \in DOMAIN sent}
Unused == Msg \ Used

\* closed.HasFired() is false: go on to the send.
CheckOpen(p, m) ==
  /\ push[p].pc = "idle" /\ closing \in {"no", "chan"}
  /\ push' = [push EXCEPT ![p] = [pc |-> "send", msg |-> m]]
  /\ UNCHANGED <<chan, closing, writer>>

\* ch.writechan <- payload: blocks while the buffer is full.
Send(p) ==
  /\ push[p].pc = "send" /\ closing = "no" /\ Len(buf) < Cap
  /\ buf' = Append(buf, push[p].msg)
  /\ sent' = Append(sent, push[p].msg)
  /\ push' = [push EXCEPT ![p] = Quiet]
  /\ UNCHANGED <<closing, writer>>

\* The send, waiting or new, finds writechan closed.
SendPanics(p) ==
  /\ push[p].pc = "send" /\ closing # "no"
  /\ push' = [push EXCEPT ![p].pc = "panic"]
  /\ UNCHANGED <<chan, closing, writer>>

Panicked == \E p \in Pusher : push[p].pc = "panic"

-----------------------------------------------------------------------------
(* Close, under once: close(writechan), then Event.Fire *)

CloseChan ==
  /\ closing = "no" /\ closing' = "chan"
  /\ UNCHANGED <<chan, push, writer>>

Fire ==
  /\ closing = "chan" /\ closing' = "fired"
  /\ UNCHANGED <<chan, push, writer>>

FireDone ==
  /\ closing = "fired" /\ closing' = "done"
  /\ UNCHANGED <<chan, push, writer>>

-----------------------------------------------------------------------------
(* writeloop *)

Take == hold' = <<Head(buf)>> /\ buf' = Tail(buf) /\ UNCHANGED sent

\* case payload := <-ch.writechan
SelectPayload ==
  /\ wpc = "select" /\ buf # <<>> /\ wpc' = "write"
  /\ Take /\ UNCHANGED <<closing, push, left, wrote, empties>>

\* the same case on the closed and drained writechan: a nil payload
SelectNil ==
  /\ wpc = "select" /\ buf = <<>> /\ closing # "no" /\ empties < MaxEmpty
  /\ wpc' = "write" /\ UNCHANGED <<chan, closing, push, hold, left, wrote, empties>>

\* case <-ch.closed.Done(); select may take it while writechan is not empty
SelectDone ==
  /\ wpc = "select" /\ closing = "done" /\ wpc' = "returned"
  /\ UNCHANGED <<chan, closing, push, hold, left, wrote, empties>>

WriteFrame ==
  /\ wpc \in {"write", "writeNext"}
  /\ wpc' = IF wpc = "write" THEN "len" ELSE "drain"
  /\ wrote' = wrote \o hold /\ hold' = <<>>
  /\ empties' = IF hold = <<>> THEN empties + 1 ELSE empties
  /\ UNCHANGED <<chan, closing, push, left>>

\* Mutant of ReadLen: one payload too many is expected in writechan.
ReadLenPlusOne ==
  /\ wpc = "len" /\ wpc' = "drain" /\ left' = Len(buf) + 1
  /\ UNCHANGED <<chan, closing, push, hold, wrote, empties>>

\* chanlen := len(ch.writechan)
ReadLen ==
  /\ wpc = "len" /\ wpc' = "drain" /\ left' = Len(buf)
  /\ UNCHANGED <<chan, closing, push, hold, wrote, empties>>

\* Mutants of DrainNext: the inner loop runs to i <= chanlen; it receives a
\* payload without assigning it and writes the one before again.
DrainOneMore ==
  /\ wpc = "drain" /\ buf # <<>> /\ wpc' = "writeNext"
  /\ left' = left - 1
  /\ Take /\ UNCHANGED <<closing, push, wrote, empties>>

DrainRepeats ==
  /\ wpc = "drain" /\ left > 0 /\ buf # <<>> /\ wpc' = "writeNext"
  /\ left' = left - 1
  /\ hold' = <<wrote[Len(wrote)]>> /\ buf' = Tail(buf) /\ UNCHANGED sent
  /\ UNCHANGED <<closing, push, wrote, empties>>

DrainNext ==
  /\ wpc = "drain" /\ left > 0 /\ buf # <<>> /\ wpc' = "writeNext"
  /\ left' = left - 1
  /\ Take /\ UNCHANGED <<closing, push, wrote, empties>>

\* Mutant of Flush: writeloop returns after one batch.
FlushReturns ==
  /\ wpc = "drain" /\ left = 0 /\ wpc' = "returned"
  /\ UNCHANGED <<chan, closing, push, hold, left, wrote, empties>>

Flush ==
  /\ wpc = "drain" /\ left = 0 /\ wpc' = "select"
  /\ UNCHANGED <<chan, closing, push, hold, left, wrote, empties>>

\* WriteFrame or Flush fails: writeloop returns the error, and nobody receives
\* from writechan any more.
WriteFails ==
  /\ WriteErrors
  /\ wpc \in {"write", "writeNext"} \/ (wpc = "drain" /\ left = 0)
  /\ wpc' = "failed"
  /\ UNCHANGED <<chan, closing, push, hold, left, wrote, empties>>

-----------------------------------------------------------------------------

PushStep(p) == (\E m \in Unused : CheckOpen(p, m)) \/ Send(p) \/ SendPanics(p)
CloseStep == CloseChan \/ Fire \/ FireDone
WriterStep ==
  \/ SelectPayload \/ SelectNil \/ SelectDone
  \/ WriteFrame \/ ReadLen \/ DrainNext \/ Flush

Next ==
  /\ ~ Panicked
  /\ \/ \E p \in Pusher : PushStep(p)
     \/ CloseStep \/ WriterStep \/ WriteFails

Spec == Init /\ [][Next]_vars

-----------------------------------------------------------------------------
(* Properties *)

TypeOK ==
  /\ buf \in Seq(Msg) /\ Len(buf) <= Cap
  /\ closing \in {"no", "chan", "fired", "done"}
  /\ push \in [Pusher -> PusherState]
  /\ \A p \in Pusher : push[p].pc = "send" => push[p].msg \in Msg
  /\ wpc \in WriterPc /\ hold \in Seq(Msg) /\ left \in Nat
  /\ wpc \in {"select", "len", "drain"} => hold = <<>>
  /\ sent \in Seq(Msg) /\ wrote \in Seq(Msg) /\ empties \in Nat

\* Whatever pushers, Close and write errors do, what reaches the connection is
\* what was pushed, in that order: the frames written, then the payload in
\* writeloop's hand, then writechan, make up exactly the payloads sent.
InOrder == wrote \o hold \o buf = sent

\* The inner loop of writeloop receives without a select; it never waits there,
\* because only writeloop takes payloads out of writechan.
DrainNeverBlocks == wpc \in {"drain", "writeNext"} => left <= Len(buf)

\* Every payload sent on writechan is written, unless the channel is closed or
\* a write fails: writeloop's two receives leave none behind.
EventuallyWritten ==
  \A m \in Msg :
    (\E i \in DOMAIN sent : sent[i] = m) ~>
      ((\E i \in DOMAIN wrote : wrote[i] = m) \/ closing # "no" \/ wpc = "failed")

\* Pushing on a channel that is being closed is reported as an error; it does
\* not end the process.
PushNeverPanics == ~ Panicked
=============================================================================
