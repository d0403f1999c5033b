------------------------------ MODULE Diagnostic ------------------------------
(***************************************************************************)
(* The text diagnostic (internal/stagetransition/diagnostic.go), one       *)
(* subscriber of the Hub, and the order in which main shuts both down.     *)
(* Its goroutine selects between its channel, a flush ticker and the stop  *)
(* signal; Close signals stop, unsubscribes and waits for the goroutine.   *)
(*                                                                         *)
(* The file is reached through a bufio.Writer, whose first failed write    *)
(* makes every later one fail.                                             *)
(***************************************************************************)
EXTENDS StageTransition

CONSTANTS
    Diag,       \* the subscriber channel of the diagnostic
    NoFooter,   \* no footer has been written
    MaxErrors   \* bound: write errors counted by the ticker

ASSUME DiagnosticAssumption == Diag \in Subs /\ MaxErrors \in Nat

VARIABLES
    loop,       \* the diagnostic's goroutine
    closer,     \* Diagnostic.Close, called once by main
    stopSeen,   \* has the loop taken the stop signal?
    broken,     \* has a write to the file failed?
    written,    \* Diagnostic.written, .writeErr and .dropped
    writeErr,
    diagDropped,
    footer      \* the counts the footer reports, or NoFooter

diagVars == <<loop, closer, stopSeen, broken, written, writeErr, diagDropped,
              footer>>
vars == <<hubVars, diagVars>>

TypeOK ==
    /\ HubTypeOK
    /\ loop \in {"none", "running", "done"}
    /\ closer \in {"none", "stopped", "waiting", "returned"}
    /\ stopSeen \in BOOLEAN /\ broken \in BOOLEAN
    /\ written \in Nat /\ writeErr \in Nat /\ diagDropped \in Nat
    /\ footer \in [written : Nat, writeErr : Nat, dropped : Nat] \cup {NoFooter}

Init ==
    /\ HubInit
    /\ loop = "none" /\ closer = "none"
    /\ stopSeen = FALSE /\ broken = FALSE
    /\ written = 0 /\ writeErr = 0 /\ diagDropped = 0
    /\ footer = NoFooter

-----------------------------------------------------------------------------
\* NewDiagnostic, called by main before anything uses the Hub; the header's
\* flush may fail unnoticed.
NewDiagnostic ==
    /\ loop = "none" /\ ~hubClosed
    /\ Subscribe(Diag)
    /\ loop' = "running"
    /\ broken' \in BOOLEAN
    /\ UNCHANGED <<closer, stopSeen, written, writeErr, diagDropped, footer>>

\* What a write or a flush may do to the writer: fail, for good.
WriteFails == broken' \in {b \in BOOLEAN : broken => b}

\* The loop takes an event and writes its block.
LoopEvent ==
    /\ loop = "running"
    /\ Receive(Diag)
    /\ WriteFails
    /\ IF broken'
       THEN writeErr' = writeErr + 1 /\ UNCHANGED written
       ELSE written' = written + 1 /\ UNCHANGED writeErr
    /\ UNCHANGED <<loop, closer, stopSeen, diagDropped, footer>>

\* The ticker flushes.
LoopTick ==
    /\ ~panicked
    /\ loop = "running"
    /\ WriteFails
    /\ IF broken'
       THEN writeErr < MaxErrors /\ writeErr' = writeErr + 1
       ELSE UNCHANGED writeErr
    /\ UNCHANGED <<hubVars, loop, closer, stopSeen, written, diagDropped,
                   footer>>

\* The loop sees the closed stop channel, now or at any later round.
LoopStop ==
    /\ ~panicked
    /\ loop = "running"
    /\ closer # "none"
    /\ stopSeen' = TRUE
    /\ diagDropped' = IF stopSeen THEN diagDropped ELSE dropped
    /\ UNCHANGED <<hubVars, loop, closer, broken, written, writeErr, footer>>

\* Mutant: the loop ends at the stop signal, whatever is still buffered.
Drained_AtStop == stopSeen
\* The channel is closed and holds nothing more.
Drained == subs[Diag] = "closed" /\ queue[Diag] = <<>>

\* The loop ends: footer, last flush, close(d.done).
LoopFooter ==
    /\ ~panicked
    /\ loop = "running"
    /\ Drained
    /\ footer' = [written |-> written, writeErr |-> writeErr,
                  dropped |-> diagDropped]
    /\ WriteFails
    /\ writeErr' = writeErr + (IF broken' THEN 1 ELSE 0)
    /\ loop' = "done"
    /\ UNCHANGED <<hubVars, closer, stopSeen, written, diagDropped>>

LoopStep == LoopEvent \/ LoopTick \/ LoopStop \/ LoopFooter

-----------------------------------------------------------------------------
\* Diagnostic.Close up to close(d.stop).
CloseDiagnostic ==
    /\ ~panicked
    /\ loop # "none"
    /\ closer = "none"
    /\ closer' = "stopped"
    /\ UNCHANGED <<hubVars, loop, stopSeen, broken, written, writeErr,
                   diagDropped, footer>>

\* Close unsubscribes, if nobody else has: off the map, and the channel is
\* closed in a later step.
CloseUnsubscribes ==
    /\ closer = "stopped"
    /\ closer' = "waiting"
    /\ Remove(Diag)
    /\ UNCHANGED <<loop, stopSeen, broken, written, writeErr, diagDropped,
                   footer>>

\* Mutant: Close waits for the goroutine before it closes the channel.
MayCloseChannel_Waits(c) == c = Diag => loop = "done"
\* A subscription taken off the map may be closed right away.
MayCloseChannel(c) == TRUE

CloseSubscription(c) ==
    /\ MayCloseChannel(c)
    /\ CloseChannel(c)
    /\ UNCHANGED diagVars

\* <-d.done
CloseReturn ==
    /\ ~panicked
    /\ closer = "waiting"
    /\ loop = "done"
    /\ closer' = "returned"
    /\ UNCHANGED <<hubVars, loop, stopSeen, broken, written, writeErr,
                   diagDropped, footer>>

\* main closes the Hub when the diagnostic, if it could be opened, is closed.
MainClosesHub ==
    /\ loop = "none" \/ closer = "returned"
    /\ CloseHub
    /\ UNCHANGED diagVars

-----------------------------------------------------------------------------
\* Subscribers other than the diagnostic come and go as they please.
OtherSubscriber(c) == Subscribe(c) \/ Remove(c) \/ Receive(c)

HubStep ==
    /\ \/ \E g \in Callers : Call(g)
       \/ \E s \in Symbols : ResetEntity(s)
       \/ \E c \in Subs \ {Diag} : OtherSubscriber(c)
    /\ UNCHANGED diagVars

Next ==
    \/ HubStep
    \/ NewDiagnostic \/ LoopStep
    \/ CloseDiagnostic \/ CloseUnsubscribes \/ CloseReturn
    \/ \E c \in Subs : CloseSubscription(c)
    \/ MainClosesHub

\* Every goroutine runs; a select picks at random among its ready cases, so
\* none of them is passed over for ever.  Nobody has to call the Hub, close
\* anything, or receive from a channel, the diagnostic's loop excepted.
Fairness ==
    /\ \A g \in Callers : WF_vars(PublishStep(g) /\ UNCHANGED diagVars)
    /\ WF_vars(LoopEvent) /\ WF_vars(LoopStop) /\ WF_vars(LoopFooter)
    /\ WF_vars(CloseUnsubscribes) /\ WF_vars(CloseReturn)
    /\ \A c \in Subs : WF_vars(CloseSubscription(c))

Spec == Init /\ [][Next]_vars
FairSpec == Spec /\ Fairness

-----------------------------------------------------------------------------
\* The footer accounts for everything the Hub delivered to the diagnostic:
\* each event was written or counted as a write error before the loop ended
\* ("Close ... drains the subscription, flushes, writes a footer").
FooterCoversDelivered ==
    footer # NoFooter =>
        footer.written + footer.writeErr >= Cardinality(got[Diag])

\* Close of the diagnostic returns, whatever the publishers are doing.
CloseReturns == (closer = "stopped") ~> (closer = "returned" \/ panicked)

\* What the publication document says, "Diagnostic footer records written /
\* dropped / write-error counts": the footer's drops are at least those of
\* the diagnostic's own channel.
FooterCountsDrops ==
    footer # NoFooter => footer.dropped >= Cardinality(Missed(Diag))
=============================================================================
