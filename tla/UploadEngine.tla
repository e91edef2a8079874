---------------------------- MODULE UploadEngine ----------------------------
(***************************************************************************)
(* The upload engine of one browser page (apps/web/src/upload/engine.ts):  *)
(* files added, paused, resumed and cancelled by the user while pumps send *)
(* their parts.  The page runs one thread; what happens between two awaits *)
(* is one step.  A pump works for a runtime; a resume makes a new runtime, *)
(* and forgets the old one without stopping a pump that works for it.      *)
(* The rate, the attempts of a part, hashing and the changing number of    *)
(* parallel parts are left out, and so are the change of account in load   *)
(* and dismiss, which takes a completed file off the list.  A checkpoint   *)
(* is a put into IndexedDB, which may fail.                                *)
(***************************************************************************)
EXTENDS Naturals, FiniteSets

CONSTANTS Transfer,    \* the files added, numbered in that order
          Parts,       \* parts of a file
          MaxLimit,    \* r.maxLimit, parts in flight of one pump
          MaxRuntimes, \* bound on the runtimes of one file, for TLC
          MaxUpsets    \* bound on upsets, for TLC

ASSUME EngineConstants ==
  /\ Transfer \subseteq Nat /\ IsFiniteSet(Transfer)
  /\ {Parts, MaxLimit, MaxRuntimes, MaxUpsets} \subseteq Nat \ {0}

VARIABLES
  transfer,  \* this.transfers, with the runtime this.runtimes has for each, what
             \* load would make of its checkpoint, and whether nobody is going
             \* to give it its turn, see WaiterHasWaker
  pump,      \* every runtime made for a transfer and the pump working for it
  server,    \* the upload as the server has it
  upsets     \* pauses, resumes, cancels, reloads and failures so far, the failures of
             \* what could not succeed left out

vars == <<transfer, pump, server, upsets>>

Part == 1..Parts
Runtime == 1..MaxRuntimes
NoPump == [step |-> "none", paused |-> FALSE, cancelled |-> FALSE, error |-> FALSE,
           next |-> 1, active |-> {}]

TypeOK ==
  /\ transfer \in [Transfer ->
       [state : {"new", "waiting", "uploading", "paused", "failed", "finalizing", "complete"},
        listed : BOOLEAN, completed : SUBSET Part, current : {0} \cup Runtime,
        resumes : Nat, cancel : {"no", "asked", "refused"},
        adding : BOOLEAN, saved : {"none", "paused", "complete"}, overlooked : BOOLEAN]]
  /\ pump \in [Transfer -> [Runtime ->
       [step : {"none", "ready", "loop", "completing", "saving", "done"},
        paused : BOOLEAN, cancelled : BOOLEAN, error : BOOLEAN,
        next : 1..(Parts + 1), active : SUBSET Part]]]
  /\ \A t \in Transfer, i \in Runtime : Cardinality(pump[t][i].active) <= MaxLimit
  /\ server \in [Transfer -> [state : {"UPLOADING", "AVAILABLE", "ABORTED"},
                              stored : SUBSET Part]]
  /\ upsets \in 0..MaxUpsets

Init ==
  /\ transfer = [t \in Transfer |-> [state |-> "new", listed |-> FALSE, completed |-> {},
                                     current |-> 0, resumes |-> 0, cancel |-> "no",
                                     adding |-> FALSE, saved |-> "none",
                                     overlooked |-> FALSE]]
  /\ pump = [t \in Transfer |-> [i \in Runtime |-> NoPump]]
  /\ server = [t \in Transfer |-> [state |-> "UPLOADING", stored |-> {}]]
  /\ upsets = 0

Running(p) == p.step \in {"loop", "completing"}

\* The runtime this.runtimes has for t in tr, if it has one, is running.
PumpOf(tr, pm, t) == tr[t].current # 0 /\ Running(pm[t][tr[t].current])

\* run(t), in the transfers tr and runtimes pm: t waits if a runtime of
\* another transfer in the map is running.
Run(t, tr, pm) ==
  LET busy == PumpOf(tr, pm, t)
      wait == \E u \in Transfer \ {t} : PumpOf(tr, pm, u)
  IN /\ transfer' = IF busy THEN tr
                    ELSE [tr EXCEPT ![t].state = IF wait THEN "waiting" ELSE "uploading",
                                    ![t].overlooked = FALSE]
     /\ pump' = IF busy \/ wait THEN pm
                ELSE [pm EXCEPT ![t][tr[t].current].step = "loop",
                                ![t][tr[t].current].next = 1,
                                ![t][tr[t].current].error = FALSE]

\* A runtime past its loop: only its cancelled flag is looked at, until run ends.
Past(p, step) == [NoPump EXCEPT !.step = step, !.cancelled = p.cancelled]

\* The next runtime of t.
Fresh(t) ==
  {i \in Runtime : pump[t][i].step = "none" /\ \A j \in 1..(i - 1) : pump[t][j].step # "none"}

WithRuntime(t, i) == [pump EXCEPT ![t][i].step = "ready"]

Upset == upsets < MaxUpsets /\ upsets' = upsets + 1

\* A failure of what could succeed, or of what could not.
Failure(possible) == IF possible THEN Upset ELSE UNCHANGED upsets

\* What load makes of a checkpoint of x.
Checkpoint(x) == IF x.state = "complete" THEN "complete" ELSE "paused"

----------------------------------------------------------------------------
(* The user.                                                               *)

\* add(file), once the server has made the upload: it is on the list, waiting.
Add(t) ==
  /\ transfer[t].state = "new" /\ \A u \in Transfer : u < t => transfer[u].state # "new"
  /\ transfer' = [transfer EXCEPT ![t].state = "waiting", ![t].listed = TRUE, ![t].adding = TRUE]
  /\ UNCHANGED <<pump, server, upsets>>

\* Its continuation after the checkpoint: a runtime, run(t).
Added(t) ==
  /\ transfer[t].adding
  /\ \E i \in Fresh(t) :
       Run(t, [transfer EXCEPT ![t].adding = FALSE, ![t].saved = "paused", ![t].current = i],
           WithRuntime(t, i))
  /\ UNCHANGED <<server, upsets>>

\* The checkpoint cannot be written: the file is left waiting, without a runtime.
AddFails(t) ==
  /\ Upset
  /\ transfer[t].adding
  /\ transfer' = [transfer EXCEPT ![t].adding = FALSE, ![t].overlooked = TRUE]
  /\ UNCHANGED <<pump, server>>

\* resume(id): the button of a paused or failed file, or the same file added
\* again. Nothing remembers that a resume awaits its answers.
ResumeStart(t) ==
  /\ transfer[t].listed /\ transfer[t].state # "complete"
  /\ ~PumpOf(transfer, pump, t)
  /\ Upset
  /\ transfer' = [transfer EXCEPT ![t].resumes = @ + 1]
  /\ UNCHANGED <<pump, server>>

\* Its continuation: the server's parts, a new runtime, run(t).
Resume(t) ==
  /\ transfer[t].resumes > 0 /\ server[t].state = "UPLOADING"
  /\ \E i \in Fresh(t) :
       Run(t, [transfer EXCEPT ![t].resumes = @ - 1, ![t].current = i,
                               ![t].completed = server[t].stored],
           WithRuntime(t, i))
  /\ UNCHANGED <<server, upsets>>

ResumeComplete(t) ==
  /\ transfer[t].resumes > 0 /\ server[t].state = "AVAILABLE"
  /\ \E saved \in {transfer[t].saved, "complete"} :
       transfer' = [transfer EXCEPT ![t].resumes = @ - 1, ![t].state = "complete",
                                    ![t].saved = saved]
  /\ UNCHANGED <<pump, server, upsets>>

\* Another file, an upload the server has closed, a failed request.
ResumeFails(t) ==
  /\ transfer[t].resumes > 0
  /\ transfer' = [transfer EXCEPT ![t].resumes = @ - 1]
  /\ UNCHANGED <<pump, server, upsets>>

\* The runtime of t is told to stop. A run past its loop and its complete has
\* looked at its flags for the last time.
Told(t, cancelled) ==
  LET i == transfer[t].current
  IN IF i = 0 \/ pump[t][i].step \notin {"ready", "loop", "completing"} THEN pump
     ELSE [pump EXCEPT ![t][i].paused = TRUE, ![t][i].cancelled = @ \/ cancelled]

\* pause(id): the button, or the browser going offline.
Pause(t) ==
  /\ Upset
  /\ transfer[t].listed /\ transfer[t].state = "uploading" /\ transfer[t].current # 0
  /\ \E saved \in {transfer[t].saved, "paused"} :
       transfer' = [transfer EXCEPT ![t].state = "paused", ![t].saved = saved]
  /\ pump' = Told(t, FALSE)
  /\ UNCHANGED server

\* cancel(id): the pump is told, the server asked, and then the file removed.
\* The dialog may be confirmed long after the button, in any state of the file.
\* Bound: no second cancel of a file whose first is not answered, or refused.
CancelStart(t) ==
  /\ Upset
  /\ transfer[t].listed /\ transfer[t].cancel = "no"
  /\ transfer' = [transfer EXCEPT ![t].cancel = "asked"]
  /\ pump' = Told(t, TRUE)
  /\ UNCHANGED server

CancelDone(t) ==
  /\ transfer[t].cancel = "asked" /\ server[t].state # "AVAILABLE"
  /\ server' = [server EXCEPT ![t].state = "ABORTED"]
  /\ \E saved \in {transfer[t].saved, "none"} :
       transfer' = [transfer EXCEPT ![t].cancel = "no", ![t].listed = FALSE, ![t].current = 0,
                                    ![t].saved = saved]
  /\ UNCHANGED <<pump, upsets>>

CancelFails(t) ==
  /\ transfer[t].cancel = "asked"
  /\ transfer' = [transfer EXCEPT ![t].cancel = "refused"]
  /\ UNCHANGED <<pump, server, upsets>>

\* Files whose checkpoint is being written, and may be there already.
Saving ==
  {t \in Transfer : \/ transfer[t].adding
                    \/ \E i \in Runtime : pump[t][i].step = "saving" /\ ~pump[t][i].cancelled}

\* The page is loaded again: checkpoints are all that is left.
Reload ==
  /\ Upset
  /\ \E written \in SUBSET Saving :
       LET saved(t) == IF t \in written THEN Checkpoint(transfer[t]) ELSE transfer[t].saved
       IN transfer' = [t \in Transfer |->
            [transfer[t] EXCEPT !.state = IF @ = "new" THEN @
                                          ELSE IF saved(t) = "complete" THEN "complete"
                                          ELSE "paused",
                                !.listed = saved(t) # "none", !.saved = saved(t),
                                !.current = 0, !.resumes = 0, !.cancel = "no",
                                !.adding = FALSE, !.overlooked = FALSE]]
  /\ pump' = [t \in Transfer |-> [i \in Runtime |->
       IF pump[t][i].step = "none" THEN NoPump ELSE [NoPump EXCEPT !.step = "done"]]]
  /\ UNCHANGED server

----------------------------------------------------------------------------
(* Pumps.                                                                  *)

\* Mutant of MoreParts: one part past the end of the file.
OnePastTheEnd(p) == p.next <= Parts + 1

MoreParts(p) == p.next <= Parts

Room(p) == Cardinality(p.active) < MaxLimit

\* The next part starts unless it is known to be stored.
Launch(t, i) ==
  LET p == pump[t][i]
  IN /\ p.step = "loop" /\ ~p.paused /\ MoreParts(p) /\ Room(p)
     /\ pump' = [pump EXCEPT ![t][i].next = @ + 1,
                             ![t][i].active = @ \cup ({p.next} \ transfer[t].completed)]
     /\ UNCHANGED <<transfer, server>>

PartDone(t, i, n) ==
  /\ n \in pump[t][i].active /\ server[t].state = "UPLOADING"
  /\ server' = [server EXCEPT ![t].stored = @ \cup {n}]
  /\ transfer' = [transfer EXCEPT ![t].completed = @ \cup {n},
                                  ![t].saved = Checkpoint(transfer[t])]
  /\ pump' = [pump EXCEPT ![t][i].active = @ \ {n}]

\* A part ends without the answer of the store, which may have it, or without
\* its checkpoint.
PartStored(t, n) ==
  \/ UNCHANGED <<transfer, server>>
  \/ /\ server[t].state = "UPLOADING" /\ server' = [server EXCEPT ![t].stored = @ \cup {n}]
     /\ \E known \in SUBSET {n} :
          transfer' = [transfer EXCEPT ![t].completed = @ \cup known]

\* A paused part returns, wherever it is.
PartStops(t, i, n) ==
  /\ n \in pump[t][i].active /\ pump[t][i].paused
  /\ PartStored(t, n)
  /\ pump' = [pump EXCEPT ![t][i].active = @ \ {n}]

\* Its attempts are used up, or a failure is final: the whole pump stops.
PartGivesUp(t, i, n) ==
  /\ Failure(server[t].state = "UPLOADING")
  /\ n \in pump[t][i].active /\ ~pump[t][i].paused
  /\ PartStored(t, n)
  /\ pump' = [pump EXCEPT ![t][i].active = @ \ {n}, ![t][i].error = TRUE,
                          ![t][i].paused = TRUE]

\* Mutant of Outcome: a pump stopped by the user asks to complete.
OutcomeWithoutPause(t, i) ==
  IF pump[t][i].cancelled THEN transfer[t].state
  ELSE IF pump[t][i].error THEN "failed" ELSE "finalizing"

\* What run does with the state when its loop has ended.
Outcome(t, i) ==
  IF pump[t][i].cancelled THEN transfer[t].state
  ELSE IF pump[t][i].error THEN "failed"
  ELSE IF pump[t][i].paused THEN "paused" ELSE "finalizing"

LoopEnds(t, i) ==
  LET p == pump[t][i]
  IN /\ p.step = "loop" /\ p.active = {} /\ (p.paused \/ ~MoreParts(p))
     /\ transfer' = [transfer EXCEPT ![t].state = Outcome(t, i)]
     /\ pump' = [pump EXCEPT ![t][i] =
                   Past(p, IF Outcome(t, i) = "finalizing" /\ ~p.cancelled
                             THEN "completing" ELSE "saving")]
     /\ UNCHANGED server

Completable(t) ==
  server[t].state = "AVAILABLE" \/ (server[t].state = "UPLOADING" /\ server[t].stored = Part)

Complete(t, i) ==
  /\ pump[t][i].step = "completing" /\ Completable(t)
  /\ server' = [server EXCEPT ![t].state = "AVAILABLE"]
  /\ transfer' = [transfer EXCEPT ![t].state = "complete"]
  /\ pump' = [pump EXCEPT ![t][i].step = "saving"]

\* Mutant of Failed: the state stays what it was.
FailureUnseen(t) == transfer[t].state

Failed(t) == IF t \in Transfer THEN "failed" ELSE transfer[t].state

\* Refused, or its answer lost after the server completed the upload.
CompleteFails(t, i) ==
  /\ Failure(Completable(t))
  /\ pump[t][i].step = "completing"
  /\ \/ UNCHANGED server
     \/ Completable(t) /\ server' = [server EXCEPT ![t].state = "AVAILABLE"]
  /\ transfer' = [transfer EXCEPT ![t].state = Failed(t)]
  /\ pump' = [pump EXCEPT ![t][i].step = "saving"]

\* Mutant of Waiters: a cancelled pump wakes nobody.
WaitersUnlessCancelled(t, i) ==
  {u \in Transfer : ~pump[t][i].cancelled /\ transfer[u].listed
                    /\ transfer[u].state = "waiting" /\ transfer[u].current # 0}

Waiters(t, i) ==
  {u \in Transfer : transfer[u].listed /\ transfer[u].state = "waiting"
                    /\ transfer[u].current # 0}

Ended(t, i) == [pump EXCEPT ![t][i] = [NoPump EXCEPT !.step = "done"]]

\* The end of run: the checkpoint is written, unless the file is cancelled, then
\* the first that waits runs. The order of the list is left open.
Saved(t, i) ==
  LET saved == IF pump[t][i].cancelled THEN transfer[t].saved ELSE Checkpoint(transfer[t])
      tr == [transfer EXCEPT ![t].saved = saved]
  IN /\ pump[t][i].step = "saving"
     /\ \/ Waiters(t, i) = {} /\ pump' = Ended(t, i) /\ transfer' = tr
        \/ \E u \in Waiters(t, i) : Run(u, tr, Ended(t, i))
     /\ UNCHANGED server

\* The checkpoint cannot be written: run ends there, and nobody is woken.
SaveFails(t, i) ==
  /\ Upset
  /\ pump[t][i].step = "saving" /\ ~pump[t][i].cancelled
  /\ pump' = Ended(t, i)
  /\ transfer' = [u \in Transfer |->
       IF u \in Waiters(t, i) THEN [transfer[u] EXCEPT !.overlooked = TRUE] ELSE transfer[u]]
  /\ UNCHANGED server

----------------------------------------------------------------------------
Pumping(t, i) ==
  \/ /\ \/ Launch(t, i) \/ LoopEnds(t, i) \/ Complete(t, i) \/ Saved(t, i)
        \/ \E n \in Part : PartDone(t, i, n) \/ PartStops(t, i, n)
     /\ UNCHANGED upsets
  \/ CompleteFails(t, i) \/ SaveFails(t, i) \/ \E n \in Part : PartGivesUp(t, i, n)

Next ==
  \/ \E t \in Transfer :
       \/ Add(t) \/ Added(t) \/ AddFails(t)
       \/ ResumeStart(t) \/ Resume(t) \/ ResumeComplete(t) \/ ResumeFails(t)
       \/ Pause(t) \/ CancelStart(t) \/ CancelDone(t) \/ CancelFails(t)
       \/ \E i \in Runtime : Pumping(t, i)
  \/ Reload

Spec == Init /\ [][Next]_vars

----------------------------------------------------------------------------
(* Properties.                                                             *)

\* A pump asks to complete only an upload all of whose parts are stored,
\* whatever pauses, failures, resumes and second pumps came in between, and a
\* file is shown as complete only when it is (engine.ts:83).
CompletesWhatIsStored ==
  \A t \in Transfer :
    /\ \A i \in Runtime : pump[t][i].step = "completing" /\ server[t].state = "UPLOADING"
         => server[t].stored = Part
    /\ transfer[t].state = "complete" => server[t].state = "AVAILABLE"

\* A file shown as uploading or finalizing has a pump at work, unless it is
\* being cancelled, or the server refused that (engine.ts:48, engine.ts:83).
ShownHasPump ==
  \A t \in Transfer :
    transfer[t].listed /\ transfer[t].state \in {"uploading", "finalizing"} =>
      transfer[t].cancel # "no" \/ \E i \in Runtime : Running(pump[t][i])

\* A file that waits its turn has a pump that wakes one when it ends, whether
\* the pumps before it complete, fail, are paused, cancelled or superseded, and
\* whoever else waits (engine.ts:75, engine.ts:86). Excepted by name are the
\* files a failing put into IndexedDB passes over (overlooked), which only the
\* user's resume gives their turn: those that wait when a pump cannot write its
\* last checkpoint, and a file added whose first one cannot be written
\* (engine.ts:36, engine.ts:86).
Wakes(p) == p.step \in {"loop", "completing", "saving"}

WaiterHasWaker ==
  \A t \in Transfer :
    transfer[t].listed /\ transfer[t].state = "waiting" /\ ~transfer[t].overlooked =>
      transfer[t].adding \/ \E u \in Transfer, i \in Runtime : Wakes(pump[u][i])

\* The comment of run: one pump at a time sends parts, "subsequent files wait
\* their turn" (engine.ts:73-74).
Sends(p) == Running(p) /\ ~p.paused

OnePump ==
  \A t, u \in Transfer : \A i, j \in Runtime :
    Sends(pump[t][i]) /\ Sends(pump[u][j]) => t = u /\ i = j
============================================================================
