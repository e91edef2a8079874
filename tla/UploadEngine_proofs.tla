------------------------ MODULE UploadEngine_proofs ------------------------
(* Proofs about UploadEngine, for any number of files, parts, connections  *)
(* and runtimes.                                                           *)
EXTENDS UploadEngine, FiniteSetTheorems, TLAPS

Row == [state : {"new", "waiting", "uploading", "paused", "failed", "finalizing", "complete"},
        listed : BOOLEAN, completed : SUBSET Part, current : {0} \cup Runtime,
        resumes : Nat, cancel : {"no", "asked", "refused"},
        adding : BOOLEAN, saved : {"none", "paused", "complete"}, overlooked : BOOLEAN]

Pump == [step : {"none", "ready", "loop", "completing", "saving", "done"},
         paused : BOOLEAN, cancelled : BOOLEAN, error : BOOLEAN,
         next : 1..(Parts + 1), active : SUBSET Part]

Kept == [state : {"UPLOADING", "AVAILABLE", "ABORTED"}, stored : SUBSET Part]

\* TypeOK without its two bounds.
Types ==
  /\ transfer \in [Transfer -> Row]
  /\ pump \in [Transfer -> [Runtime -> Pump]]
  /\ server \in [Transfer -> Kept]

LEMMA Numbers == /\ Parts \in Nat \ {0} /\ MaxLimit \in Nat \ {0} /\ MaxUpsets \in Nat \ {0}
                 /\ 1 \in Runtime /\ 0 \notin Runtime /\ NoPump \in Pump
  BY EngineConstants DEF Runtime, NoPump, Pump, Part

\* What Run does: it gives the file its turn and starts its runtime, lets it
\* wait for one that runs, or changes nothing.
Ran(t, c, tr, pm, tr2, pm2) ==
  \/ Running(pm[t][c]) /\ tr2 = tr /\ pm2 = pm
  \/ /\ \E u \in Transfer, i \in Runtime : Running(pm[u][i])
     /\ tr2 = [tr EXCEPT ![t].state = "waiting", ![t].overlooked = FALSE] /\ pm2 = pm
  \/ /\ ~Running(pm[t][c])
     /\ tr2 = [tr EXCEPT ![t].state = "uploading", ![t].overlooked = FALSE]
     /\ pm2 = [pm EXCEPT ![t][c].step = "loop", ![t][c].next = 1, ![t][c].error = FALSE]

LEMMA RunRan ==
  ASSUME NEW t \in Transfer, NEW c \in Runtime, NEW tr \in [Transfer -> Row], NEW pm,
         tr[t].current = c, Run(t, tr, pm)
  PROVE  Ran(t, c, tr, pm, transfer', pump')
<1>1. c # 0
  BY Numbers
<1>2. ASSUME NEW u \in Transfer, PumpOf(tr, pm, u)
      PROVE  \E v \in Transfer, i \in Runtime : Running(pm[v][i])
  BY <1>2 DEF PumpOf, Row
<1> QED
  BY <1>1, <1>2 DEF Run, Ran, PumpOf

\* What becomes of the file x and its runtime p then.
Turned(x, p, x2, p2) ==
  \/ p2 = p /\ x2.state = "waiting"
  \/ Running(p) /\ p2 = p /\ x2.state = x.state
  \/ /\ ~Running(p)
     /\ x2.state = "uploading"
     /\ p2.step = "loop" /\ p2.next = 1 /\ p2.active = p.active
     /\ p2.cancelled = p.cancelled

\* What does not.
Same(x, x2) ==
  /\ x2.listed = x.listed /\ x2.completed = x.completed /\ x2.cancel = x.cancel
  /\ x2.current = x.current /\ x2.adding = x.adding /\ x2.saved = x.saved
  /\ x2.resumes = x.resumes

LEMMA RunDoes ==
  ASSUME NEW t \in Transfer, NEW c \in Runtime,
         NEW tr \in [Transfer -> Row], NEW pm \in [Transfer -> [Runtime -> Pump]],
         NEW tr2, NEW pm2, Ran(t, c, tr, pm, tr2, pm2)
  PROVE  /\ tr2 \in [Transfer -> Row] /\ pm2 \in [Transfer -> [Runtime -> Pump]]
         /\ \A u \in Transfer : u # t => tr2[u] = tr[u]
         /\ Same(tr[t], tr2[t])
         /\ \A u \in Transfer, i \in Runtime : u # t \/ i # c => pm2[u][i] = pm[u][i]
         /\ Turned(tr[t], pm[t][c], tr2[t], pm2[t][c])
         /\ \E u \in Transfer, i \in Runtime : Running(pm2[u][i])
<1>1. c # 0 /\ tr[t] \in Row /\ pm[t][c] \in Pump /\ 1 \in 1..(Parts + 1)
  BY Numbers
<1>2. CASE Running(pm[t][c]) /\ tr2 = tr /\ pm2 = pm
  BY <1>2 DEF Turned, Same
<1>3. CASE /\ \E u \in Transfer, i \in Runtime : Running(pm[u][i])
           /\ tr2 = [tr EXCEPT ![t].state = "waiting", ![t].overlooked = FALSE] /\ pm2 = pm
  <2>1. [tr EXCEPT ![t].state = "waiting", ![t].overlooked = FALSE] \in [Transfer -> Row]
    BY <1>1 DEF Row
  <2>2. Same(tr[t], tr2[t]) /\ tr2[t].state = "waiting"
    BY <1>1, <1>3 DEF Row, Same
  <2> QED
    BY <1>1, <1>3, <2>1, <2>2 DEF Turned
<1>4. CASE /\ ~Running(pm[t][c])
           /\ tr2 = [tr EXCEPT ![t].state = "uploading", ![t].overlooked = FALSE]
           /\ pm2 = [pm EXCEPT ![t][c].step = "loop", ![t][c].next = 1, ![t][c].error = FALSE]
  <2>1. [tr EXCEPT ![t].state = "uploading", ![t].overlooked = FALSE] \in [Transfer -> Row]
    BY <1>1 DEF Row
  <2>2. [pm EXCEPT ![t][c].step = "loop", ![t][c].next = 1, ![t][c].error = FALSE]
          \in [Transfer -> [Runtime -> Pump]]
    BY <1>1 DEF Pump
  <2>3. \A u \in Transfer, i \in Runtime : u # t \/ i # c => pm2[u][i] = pm[u][i]
    BY <1>4
  <2>4. /\ pm2[t][c].step = "loop" /\ pm2[t][c].next = 1
        /\ pm2[t][c].active = pm[t][c].active
        /\ pm2[t][c].cancelled = pm[t][c].cancelled
    BY <1>1, <1>4 DEF Pump
  <2>5. /\ \A u \in Transfer : u # t => tr2[u] = tr[u]
        /\ Same(tr[t], tr2[t]) /\ tr2[t].state = "uploading"
    BY <1>1, <1>4 DEF Row, Same
  <2>6. \E u \in Transfer, i \in Runtime : Running(pm2[u][i])
    BY <2>4 DEF Running
  <2> QED
    BY <1>4, <2>1, <2>2, <2>3, <2>4, <2>5, <2>6 DEF Turned
<1> QED
  BY <1>2, <1>3, <1>4 DEF Ran

----------------------------------------------------------------------------
(* The invariant, of each file with its runtimes and its upload.            *)

\* What is known to be stored is; a file shown or saved as complete is; one that
\* was not added has neither a runtime nor a checkpoint. A pump at work has
\* launched, or found stored, every part before the next one; it completes when
\* all are stored.
Progress(p, sv) ==
  /\ p.step = "loop" /\ ~p.paused =>
       \A n \in Part : n < p.next => n \in sv.stored \/ n \in p.active
  /\ p.step = "completing" => sv.stored = Part

Shown(x, ps) ==
  x.listed /\ x.state \in {"uploading", "finalizing"} =>
    x.cancel # "no" \/ \E i \in Runtime : Running(ps[i])

Untouched(x, ps) ==
  /\ ~x.listed /\ ~x.adding /\ x.saved = "none" /\ x.resumes = 0
  /\ \A i \in Runtime : ps[i] = NoPump

Fits(x, ps, sv) ==
  /\ x.completed \subseteq sv.stored
  /\ x.state = "complete" => sv.state = "AVAILABLE"
  /\ x.saved = "complete" => sv.state = "AVAILABLE"
  /\ x.state = "new" => Untouched(x, ps)
  /\ Shown(x, ps)
  /\ \A i \in Runtime : ps[i].cancelled => x.cancel # "no" \/ ~x.listed
  /\ \A i \in Runtime : Progress(ps[i], sv)

EngineInv ==
  /\ Types
  /\ \A t \in Transfer : Fits(transfer[t], pump[t], server[t])

LEMMA EngineInit == Init => EngineInv
<1> SUFFICES ASSUME Init PROVE EngineInv
  OBVIOUS
<1>1. Types
  BY Numbers DEF Init, Types, Row, Kept
<1>2. ASSUME NEW t \in Transfer PROVE Fits(transfer[t], pump[t], server[t])
  <2>1. /\ transfer[t].state = "new" /\ transfer[t].listed = FALSE
        /\ transfer[t].saved = "none" /\ ~transfer[t].adding /\ transfer[t].resumes = 0
        /\ transfer[t].completed = {} /\ server[t].stored = {}
        /\ \A i \in Runtime : pump[t][i] = NoPump
    BY DEF Init
  <2>2. NoPump.step = "none" /\ NoPump.cancelled = FALSE
    BY DEF NoPump
  <2> QED
    BY <2>1, <2>2 DEF Fits, Untouched, Shown, Progress
<1> QED
  BY <1>1, <1>2 DEF EngineInv

\* The parts in flight: only Launch adds one.
ActiveShrinks ==
  \A t \in Transfer, i \in Runtime : pump'[t][i].active \subseteq pump[t][i].active

\* A step that changes one file only need be looked at there.
LEMMA OneFile ==
  ASSUME EngineInv, Types', NEW t \in Transfer,
         \A u \in Transfer : u # t =>
           transfer'[u] = transfer[u] /\ pump'[u] = pump[u] /\ server'[u] = server[u],
         Fits(transfer'[t], pump'[t], server'[t])
  PROVE  EngineInv'
BY DEF EngineInv

LEMMA WithRuntimeDoes ==
  ASSUME Types, NEW t \in Transfer, NEW i \in Runtime
  PROVE  /\ WithRuntime(t, i) \in [Transfer -> [Runtime -> Pump]]
         /\ \A u \in Transfer, j \in Runtime :
              u # t \/ j # i => WithRuntime(t, i)[u][j] = pump[u][j]
         /\ WithRuntime(t, i)[t][i].step = "ready"
         /\ WithRuntime(t, i)[t][i].cancelled = pump[t][i].cancelled
         /\ WithRuntime(t, i)[t][i].active = pump[t][i].active
<1> DEFINE new == [pump[t][i] EXCEPT !.step = "ready"]
<1>1. pump[t][i] \in Pump /\ pump \in [Transfer -> [Runtime -> Pump]]
  BY DEF Types
<1>2. new \in Pump /\ new.step = "ready" /\ new.cancelled = pump[t][i].cancelled
      /\ new.active = pump[t][i].active
  BY <1>1 DEF Pump
<1>3. WithRuntime(t, i) = [pump EXCEPT ![t][i] = new]
  BY DEF WithRuntime
<1> HIDE DEF new
<1> QED
  BY <1>1, <1>2, <1>3

\* The turn of file t, whose new runtime is c.
LEMMA StartInv ==
  ASSUME EngineInv, NEW t \in Transfer, NEW c \in Runtime, NEW tr \in [Transfer -> Row],
         tr[t].state # "new",
         \A u \in Transfer : u # t => tr[u] = transfer[u],
         tr[t].completed \subseteq server[t].stored,
         tr[t].saved = "complete" => server[t].state = "AVAILABLE",
         \A i \in Runtime : pump[t][i].cancelled => tr[t].cancel # "no" \/ ~tr[t].listed,
         Ran(t, c, tr, WithRuntime(t, c), transfer', pump'), UNCHANGED server
  PROVE  EngineInv' /\ ActiveShrinks
<1> DEFINE pm == WithRuntime(t, c)
<1>1. Types /\ Fits(transfer[t], pump[t], server[t])
  BY DEF EngineInv, Types
<1>2. /\ pm \in [Transfer -> [Runtime -> Pump]]
      /\ \A u \in Transfer, i \in Runtime : u # t \/ i # c => pm[u][i] = pump[u][i]
      /\ pm[t][c].step = "ready" /\ pm[t][c].cancelled = pump[t][c].cancelled
      /\ pm[t][c].active = pump[t][c].active
  BY <1>1, WithRuntimeDoes
<1> HIDE DEF pm
<1>3. ~Running(pm[t][c])
  BY <1>2 DEF Running
<1>4. Ran(t, c, tr, pm, transfer', pump')
  BY DEF pm
<1>5. /\ transfer' \in [Transfer -> Row] /\ pump' \in [Transfer -> [Runtime -> Pump]]
      /\ \A u \in Transfer : u # t => transfer'[u] = tr[u]
      /\ transfer'[t].listed = tr[t].listed /\ transfer'[t].saved = tr[t].saved
      /\ transfer'[t].completed = tr[t].completed /\ transfer'[t].cancel = tr[t].cancel
      /\ \A u \in Transfer, i \in Runtime : u # t \/ i # c => pump'[u][i] = pm[u][i]
  BY <1>2, <1>4, RunDoes DEF Same
<1>8. \/ pump'[t][c] = pm[t][c] /\ transfer'[t].state = "waiting"
      \/ /\ transfer'[t].state = "uploading"
         /\ pump'[t][c].step = "loop" /\ pump'[t][c].next = 1
         /\ pump'[t][c].cancelled = pm[t][c].cancelled
         /\ pump'[t][c].active = pm[t][c].active
  <2>1. Turned(tr[t], pm[t][c], transfer'[t], pump'[t][c])
    BY <1>2, <1>4, RunDoes
  <2> QED
    BY <1>3, <2>1 DEF Turned
<1>6. Fits(transfer'[t], pump'[t], server'[t])
  <2>1. ASSUME NEW i \in Runtime PROVE Progress(pump'[t][i], server'[t])
    <3>1. CASE i # c
      <4>1. pump'[t][i] = pump[t][i] /\ server'[t] = server[t]
        BY <1>2, <1>5, <3>1
      <4>2. Progress(pump[t][i], server[t])
        BY <1>1 DEF Fits
      <4> QED
        BY <4>1, <4>2
    <3>2. CASE i = c /\ pump'[t][c] = pm[t][c]
      BY <1>2, <3>2 DEF Progress
    <3>3. CASE i = c /\ pump'[t][c].step = "loop" /\ pump'[t][c].next = 1
      BY <3>3 DEF Progress, Part
    <3> QED
      BY <1>8, <3>1, <3>2, <3>3
  <2>2. \A i \in Runtime : pump'[t][i].cancelled = pump[t][i].cancelled
    BY <1>2, <1>5, <1>8
  <2>3. Shown(transfer'[t], pump'[t])
    BY <1>8 DEF Shown, Running
  <2> QED
    BY <1>5, <1>8, <2>1, <2>2, <2>3 DEF Fits
<1>7. Types' /\ \A u \in Transfer : u # t =>
        transfer'[u] = transfer[u] /\ pump'[u] = pump[u] /\ server'[u] = server[u]
  BY <1>1, <1>2, <1>5 DEF Types
<1>9. ActiveShrinks
  BY <1>2, <1>5, <1>8 DEF ActiveShrinks
<1> QED
  BY <1>6, <1>7, <1>9, OneFile

LEMMA AddInv == ASSUME EngineInv, NEW t \in Transfer, Add(t) PROVE EngineInv'
<1> DEFINE s == "waiting"
<1>1. Types /\ Fits(transfer[t], pump[t], server[t]) /\ transfer[t] \in Row
      /\ transfer[t].state = "new" /\ s = "waiting"
  BY DEF EngineInv, Types, Add
<1>2. /\ UNCHANGED <<pump, server>>
      /\ transfer' = [transfer EXCEPT ![t].state = s, ![t].listed = TRUE, ![t].adding = TRUE]
  BY DEF Add
<1> HIDE DEF s
<1>3. /\ transfer' \in [Transfer -> Row] /\ transfer'[t].state = s
      /\ transfer'[t].completed = transfer[t].completed
      /\ transfer'[t].saved = transfer[t].saved
      /\ \A u \in Transfer : u # t => transfer'[u] = transfer[u]
  BY <1>1, <1>2 DEF Types, Row
<1>4. \A i \in Runtime : ~pump[t][i].cancelled
  BY <1>1 DEF Fits, Untouched, NoPump
<1>5. Fits(transfer'[t], pump'[t], server'[t])
  BY <1>1, <1>2, <1>3, <1>4 DEF Fits, Shown
<1> QED
  BY <1>1, <1>2, <1>3, <1>5, OneFile DEF Types

LEMMA AddFailsInv == ASSUME EngineInv, NEW t \in Transfer, AddFails(t) PROVE EngineInv'
<1>1. Types /\ Fits(transfer[t], pump[t], server[t]) /\ transfer[t] \in Row
  BY DEF EngineInv, Types
<1>2. /\ UNCHANGED <<pump, server>>
      /\ transfer' = [transfer EXCEPT ![t].adding = FALSE, ![t].overlooked = TRUE]
  BY DEF AddFails
<1>3. /\ transfer' \in [Transfer -> Row] /\ transfer'[t].state = transfer[t].state
      /\ transfer'[t].completed = transfer[t].completed
      /\ transfer'[t].saved = transfer[t].saved /\ transfer'[t].listed = transfer[t].listed
      /\ transfer'[t].cancel = transfer[t].cancel
      /\ \A u \in Transfer : u # t => transfer'[u] = transfer[u]
  BY <1>1, <1>2 DEF Types, Row
<1>4. transfer[t].state # "new"
  BY <1>1 DEF AddFails, Fits, Untouched
<1>5. Fits(transfer'[t], pump'[t], server'[t])
  BY <1>1, <1>2, <1>3, <1>4 DEF Fits, Shown
<1> QED
  BY <1>1, <1>2, <1>3, <1>5, OneFile DEF Types

\* Whoever starts runtime c of t for a new runtime has these transfers.
Restarts(t, c, tr) ==
  /\ tr \in [Transfer -> Row] /\ tr[t].current = c /\ c \in Runtime
  /\ \A u \in Transfer : u # t => tr[u] = transfer[u]
  /\ tr[t].state = transfer[t].state
  /\ tr[t].cancel = transfer[t].cancel /\ tr[t].listed = transfer[t].listed
  /\ Ran(t, c, tr, WithRuntime(t, c), transfer', pump')

LEMMA AddedDoes ==
  ASSUME Types, NEW t \in Transfer, Added(t)
  PROVE  \E c \in Runtime, tr \in [Transfer -> Row] :
           /\ Restarts(t, c, tr)
           /\ tr[t].completed = transfer[t].completed /\ tr[t].saved = "paused"
<1>1. PICK c \in Fresh(t) :
        Run(t, [transfer EXCEPT ![t].adding = FALSE, ![t].saved = "paused", ![t].current = c],
            WithRuntime(t, c))
  BY DEF Added
<1> DEFINE tr == [transfer EXCEPT ![t].adding = FALSE, ![t].saved = "paused", ![t].current = c]
<1>2. c \in Runtime /\ transfer[t] \in Row
  BY DEF Fresh, Types
<1>3. /\ tr \in [Transfer -> Row] /\ tr[t].current = c
      /\ \A u \in Transfer : u # t => tr[u] = transfer[u]
      /\ tr[t].completed = transfer[t].completed /\ tr[t].saved = "paused"
      /\ tr[t].state = transfer[t].state
      /\ tr[t].cancel = transfer[t].cancel /\ tr[t].listed = transfer[t].listed
  BY <1>2 DEF Types, Row
<1>4. Run(t, tr, WithRuntime(t, c))
  BY <1>1
<1> HIDE DEF tr
<1>5. Ran(t, c, tr, WithRuntime(t, c), transfer', pump')
  BY <1>2, <1>3, <1>4, RunRan
<1> QED
  BY <1>2, <1>3, <1>5 DEF Restarts

LEMMA ResumeDoes ==
  ASSUME Types, NEW t \in Transfer, Resume(t)
  PROVE  \E c \in Runtime, tr \in [Transfer -> Row] :
           /\ Restarts(t, c, tr)
           /\ tr[t].completed = server[t].stored /\ tr[t].saved = transfer[t].saved
<1>1. PICK c \in Fresh(t) :
        Run(t, [transfer EXCEPT ![t].resumes = @ - 1, ![t].current = c,
                                ![t].completed = server[t].stored], WithRuntime(t, c))
  BY DEF Resume
<1> DEFINE less == transfer[t].resumes - 1
           tr == [transfer EXCEPT ![t].resumes = less, ![t].current = c,
                                  ![t].completed = server[t].stored]
<1>2. c \in Runtime /\ transfer[t] \in Row /\ server[t].stored \subseteq Part
  BY DEF Fresh, Types, Kept
<1>3. less \in Nat
  BY <1>2 DEF Resume, Row
<1>4. Run(t, tr, WithRuntime(t, c))
  BY <1>1
<1> HIDE DEF less
<1>5. /\ tr \in [Transfer -> Row] /\ tr[t].current = c
      /\ \A u \in Transfer : u # t => tr[u] = transfer[u]
      /\ tr[t].completed = server[t].stored /\ tr[t].saved = transfer[t].saved
      /\ tr[t].state = transfer[t].state
      /\ tr[t].cancel = transfer[t].cancel /\ tr[t].listed = transfer[t].listed
  BY <1>2, <1>3 DEF Types, Row
<1> HIDE DEF tr
<1>6. Ran(t, c, tr, WithRuntime(t, c), transfer', pump')
  BY <1>2, <1>4, <1>5, RunRan
<1> QED
  BY <1>2, <1>5, <1>6 DEF Restarts

LEMMA RestartInv ==
  ASSUME EngineInv, NEW t \in Transfer, Added(t) \/ Resume(t)
  PROVE  EngineInv' /\ ActiveShrinks
<1>1. Types /\ Fits(transfer[t], pump[t], server[t]) /\ UNCHANGED server
  BY DEF EngineInv, Added, Resume
<1>2. PICK c \in Runtime, tr \in [Transfer -> Row] :
        /\ Restarts(t, c, tr)
        /\ tr[t].completed \in {transfer[t].completed, server[t].stored}
        /\ tr[t].saved \in {transfer[t].saved, "paused"}
  BY <1>1, AddedDoes, ResumeDoes
<1>5. transfer[t].adding \/ transfer[t].resumes > 0
  BY DEF Added, Resume
<1>0. transfer[t].state # "new"
  BY <1>1, <1>5 DEF Fits, Untouched
<1>3. /\ tr[t].state # "new"
      /\ tr[t].completed \subseteq server[t].stored
      /\ tr[t].saved = "complete" => server[t].state = "AVAILABLE"
      /\ \A i \in Runtime : pump[t][i].cancelled => tr[t].cancel # "no" \/ ~tr[t].listed
  BY <1>0, <1>1, <1>2 DEF Fits, Restarts
<1>4. /\ \A u \in Transfer : u # t => tr[u] = transfer[u]
      /\ Ran(t, c, tr, WithRuntime(t, c), transfer', pump')
  BY <1>2 DEF Restarts
<1> QED
  BY <1>1, <1>3, <1>4, StartInv

\* A step of one pump.
Stepped(t, i) ==
  /\ pump' \in [Transfer -> [Runtime -> Pump]]
  /\ \A u \in Transfer, j \in Runtime : u # t \/ j # i => pump'[u][j] = pump[u][j]
  /\ transfer' \in [Transfer -> Row]
  /\ server' \in [Transfer -> Kept]
  /\ \A u \in Transfer : u # t => transfer'[u] = transfer[u] /\ server'[u] = server[u]
  /\ transfer'[t].listed = transfer[t].listed
  /\ transfer'[t].cancel = transfer[t].cancel
  /\ transfer'[t].state # "new"
  /\ transfer'[t].state = "complete" => server'[t].state = "AVAILABLE"
  /\ transfer'[t].saved = "complete" => server'[t].state = "AVAILABLE"
  /\ transfer'[t].completed \subseteq server'[t].stored
  /\ server[t].stored \subseteq server'[t].stored
  /\ pump'[t][i].cancelled => pump[t][i].cancelled
  /\ Progress(pump'[t][i], server'[t])
  /\ Shown(transfer'[t], pump'[t])

LEMMA PumpStep ==
  ASSUME EngineInv, NEW t \in Transfer, NEW i \in Runtime, Stepped(t, i)
  PROVE  EngineInv'
<1> USE DEF Stepped
<1>1. Types /\ Fits(transfer[t], pump[t], server[t])
  BY DEF EngineInv
<1>2. /\ \A u \in Transfer : u # t => pump'[u] = pump[u]
      /\ \A j \in Runtime : j # i => pump'[t][j] = pump[t][j]
  BY <1>1 DEF Types
<1>3. Types'
  BY <1>2 DEF Types
<1>4. \A j \in Runtime : pump'[t][j].cancelled => pump[t][j].cancelled
  BY <1>2
<1>5. ASSUME NEW j \in Runtime PROVE Progress(pump'[t][j], server'[t])
  <2>1. CASE j = i
    BY <2>1
  <2>2. CASE j # i
    <3>1. Progress(pump[t][j], server[t]) /\ server'[t].stored \subseteq Part
      BY <1>1 DEF Fits, Kept
    <3>2. pump'[t][j] = pump[t][j]
      BY <1>2, <2>2
    <3> QED
      BY <3>1, <3>2 DEF Progress
  <2> QED
    BY <2>1, <2>2
<1>6. Fits(transfer'[t], pump'[t], server'[t])
  <2>2. \A j \in Runtime :
          pump'[t][j].cancelled => transfer'[t].cancel # "no" \/ ~transfer'[t].listed
    BY <1>1, <1>4 DEF Fits
  <2> QED
    BY <1>5, <2>2 DEF Fits
<1> QED
  BY <1>2, <1>3, <1>6, OneFile

\* What is known and stored of the parts of t, and its checkpoint.
Marks(x) == {x.saved, Checkpoint(x)}

Recorded(t, done, saved, stored) ==
  /\ transfer' = [transfer EXCEPT ![t].completed = done, ![t].saved = saved]
  /\ server' = [server EXCEPT ![t].stored = stored]

\* Such a step that neither starts nor ends the pump's work, nor shows it.
LEMMA PartStep ==
  ASSUME EngineInv, NEW t \in Transfer, NEW i \in Runtime,
         pump' \in [Transfer -> [Runtime -> Pump]],
         \A u \in Transfer, j \in Runtime : u # t \/ j # i => pump'[u][j] = pump[u][j],
         NEW done \in SUBSET Part, NEW saved \in Marks(transfer[t]),
         NEW stored \in SUBSET Part, Recorded(t, done, saved, stored),
         done \subseteq stored, server[t].stored \subseteq stored,
         pump'[t][i].step = pump[t][i].step, pump[t][i] # NoPump,
         pump'[t][i].cancelled = pump[t][i].cancelled,
         Progress(pump'[t][i], server'[t])
  PROVE  EngineInv'
<1>1. Types /\ Fits(transfer[t], pump[t], server[t]) /\ transfer[t] \in Row
  BY DEF EngineInv, Types
<1>2. /\ transfer' \in [Transfer -> Row]
      /\ \A u \in Transfer : u # t => transfer'[u] = transfer[u]
      /\ transfer'[t].listed = transfer[t].listed /\ transfer'[t].cancel = transfer[t].cancel
      /\ transfer'[t].state = transfer[t].state /\ transfer'[t].completed = done
      /\ transfer'[t].saved = saved
  BY <1>1 DEF Recorded, Types, Row, Marks, Checkpoint
<1>3. /\ server' \in [Transfer -> Kept]
      /\ \A u \in Transfer : u # t => server'[u] = server[u]
      /\ server'[t].state = server[t].state /\ server'[t].stored = stored
  BY <1>1 DEF Recorded, Types, Kept
<1>4. Shown(transfer'[t], pump'[t])
  <2>1. \A j \in Runtime : pump'[t][j].step = pump[t][j].step
    BY <1>1 DEF Types, Kept
  <2>2. Shown(transfer[t], pump[t])
    BY <1>1 DEF Fits
  <2> QED
    BY <1>2, <2>1, <2>2 DEF Shown, Running
<1>5. /\ transfer'[t].state = "complete" => server'[t].state = "AVAILABLE"
      /\ transfer'[t].saved = "complete" => server'[t].state = "AVAILABLE"
  BY <1>1, <1>2, <1>3 DEF Fits, Marks, Checkpoint
<1>6. /\ transfer'[t].state # "new"
      /\ transfer'[t].completed \subseteq server'[t].stored
      /\ server[t].stored \subseteq server'[t].stored
      /\ \A u \in Transfer : u # t => transfer'[u] = transfer[u] /\ server'[u] = server[u]
  BY <1>1, <1>2, <1>3 DEF Fits, Untouched
<1>7. Stepped(t, i)
  BY <1>2, <1>3, <1>4, <1>5, <1>6 DEF Stepped
<1> QED
  BY <1>7, PumpStep

LEMMA LaunchInv ==
  ASSUME EngineInv, NEW t \in Transfer, NEW i \in Runtime, Launch(t, i) PROVE EngineInv'
<1> DEFINE p == pump[t][i]
           q == pump'[t][i]
           added == pump[t][i].active \cup ({pump[t][i].next} \ transfer[t].completed)
           next == pump[t][i].next + 1
<1>1. Types /\ Fits(transfer[t], pump[t], server[t]) /\ transfer[t] \in Row /\ p \in Pump
      /\ Parts \in Nat
  BY Numbers DEF EngineInv, Types
<1>2. p.next \in Part /\ pump' = [pump EXCEPT ![t][i].next = next, ![t][i].active = added]
      /\ UNCHANGED <<transfer, server>> /\ p.step = "loop" /\ p # NoPump
  BY <1>1 DEF Launch, MoreParts, Pump, Part, NoPump
<1>3. next \in 1..(Parts + 1) /\ added \in SUBSET Part /\ next = p.next + 1 /\ p.next \in Nat
  BY <1>1, <1>2 DEF Part, Pump
<1>a. \A n : n \in added <=> n \in p.active \/ (n = p.next /\ n \notin transfer[t].completed)
  OBVIOUS
<1> HIDE DEF added, next
<1>4. /\ pump' \in [Transfer -> [Runtime -> Pump]]
      /\ q.step = p.step /\ q.cancelled = p.cancelled /\ q.paused = p.paused
      /\ q.next = next /\ q.active = added
      /\ \A u \in Transfer, j \in Runtime : u # t \/ j # i => pump'[u][j] = pump[u][j]
  BY <1>1, <1>2, <1>3 DEF Types, Pump
<1>6. Progress(q, server'[t])
  <2>1. ASSUME ~p.paused, NEW n \in Part, n < p.next + 1 PROVE n \in server[t].stored \/ n \in added
    <3>1. CASE n < p.next
      BY <1>1, <1>2, <1>a, <2>1, <3>1 DEF Fits, Progress
    <3>2. CASE n = p.next
      BY <1>1, <1>a, <3>2 DEF Fits
    <3>3. n < p.next \/ n = p.next
      BY <1>3, <2>1 DEF Part
    <3> QED
      BY <3>1, <3>2, <3>3
  <2> QED
    BY <1>2, <1>3, <1>4, <2>1 DEF Progress
<1>7. /\ Recorded(t, transfer[t].completed, transfer[t].saved, server[t].stored)
      /\ transfer[t].saved \in Marks(transfer[t])
  BY <1>1, <1>2 DEF Recorded, Types, Row, Kept, Marks
<1>8. transfer[t].completed \in SUBSET Part /\ server[t].stored \in SUBSET Part
      /\ transfer[t].completed \subseteq server[t].stored
  BY <1>1 DEF Types, Row, Kept, Fits
<1> QED
  BY <1>2, <1>4, <1>6, <1>7, <1>8, PartStep

LEMMA PartDoneInv ==
  ASSUME EngineInv, NEW t \in Transfer, NEW i \in Runtime, NEW n \in Part, PartDone(t, i, n)
  PROVE  EngineInv'
<1> DEFINE p == pump[t][i]
           q == pump'[t][i]
           left == pump[t][i].active \ {n}
           done == transfer[t].completed \cup {n}
           stored == server[t].stored \cup {n}
           saved == Checkpoint(transfer[t])
<1>1. Types /\ Fits(transfer[t], pump[t], server[t]) /\ transfer[t] \in Row /\ p \in Pump
  BY DEF EngineInv, Types
<1>2. /\ pump' = [pump EXCEPT ![t][i].active = left]
      /\ transfer' = [transfer EXCEPT ![t].completed = done, ![t].saved = saved]
      /\ server' = [server EXCEPT ![t].stored = stored]
  BY <1>1 DEF PartDone
<1>8. Recorded(t, done, saved, stored) /\ saved \in Marks(transfer[t])
  BY <1>2 DEF Recorded, Marks
<1>7. p # NoPump
  BY DEF PartDone, NoPump
<1>3. /\ left \in SUBSET Part /\ done \in SUBSET Part /\ stored \in SUBSET Part
      /\ done \subseteq stored /\ server[t].stored \subseteq stored /\ n \in stored
      /\ \A m : m \in left <=> m \in p.active /\ m # n
  BY <1>1 DEF Types, Row, Kept, Pump, Fits
<1> HIDE DEF left, done, stored, saved
<1>4. /\ pump' \in [Transfer -> [Runtime -> Pump]]
      /\ q.step = p.step /\ q.cancelled = p.cancelled /\ q.paused = p.paused
      /\ q.next = p.next /\ q.active = left
      /\ \A u \in Transfer, j \in Runtime : u # t \/ j # i => pump'[u][j] = pump[u][j]
  BY <1>1, <1>2, <1>3 DEF Types, Pump
<1>5. server'[t].stored = stored
  BY <1>1, <1>2 DEF Types, Kept
<1>6. Progress(q, server'[t])
  BY <1>1, <1>3, <1>4, <1>5 DEF Fits, Progress
<1> QED
  BY <1>3, <1>4, <1>6, <1>7, <1>8, PartStep

LEMMA PartStopsInv ==
  ASSUME EngineInv, NEW t \in Transfer, NEW i \in Runtime, NEW n \in Part,
         PartStops(t, i, n) \/ PartGivesUp(t, i, n)
  PROVE  EngineInv'
<1> DEFINE p == pump[t][i]
           q == pump'[t][i]
           left == pump[t][i].active \ {n}
<1>1. Types /\ Fits(transfer[t], pump[t], server[t]) /\ transfer[t] \in Row /\ p \in Pump
  BY DEF EngineInv, Types
<1>2. /\ \/ p.paused /\ pump' = [pump EXCEPT ![t][i].active = left]
         \/ pump' = [pump EXCEPT ![t][i].active = left, ![t][i].error = TRUE,
                                 ![t][i].paused = TRUE]
  BY DEF PartStops, PartGivesUp
<1>9. PartStored(t, n) /\ p # NoPump
  BY DEF PartStops, PartGivesUp, NoPump
<1>3. left \in SUBSET Part
  BY <1>1 DEF Pump
<1> HIDE DEF left
<1>4. /\ pump' \in [Transfer -> [Runtime -> Pump]]
      /\ q.step = p.step /\ q.cancelled = p.cancelled /\ q.paused
      /\ \A u \in Transfer, j \in Runtime : u # t \/ j # i => pump'[u][j] = pump[u][j]
  <2>1. CASE p.paused /\ pump' = [pump EXCEPT ![t][i].active = left]
    BY <1>1, <1>3, <2>1 DEF Types, Pump
  <2>2. CASE pump' = [pump EXCEPT ![t][i].active = left, ![t][i].error = TRUE,
                                  ![t][i].paused = TRUE]
    BY <1>1, <1>3, <2>2 DEF Types, Pump
  <2> QED
    BY <1>2, <2>1, <2>2
<1>5. PICK stored \in SUBSET Part, done \in SUBSET Part :
        /\ server[t].stored \subseteq stored /\ done \subseteq stored
        /\ Recorded(t, done, transfer[t].saved, stored)
  <2>0. /\ transfer[t].completed \in SUBSET Part /\ server[t].stored \in SUBSET Part
        /\ transfer[t].completed \subseteq server[t].stored
    BY <1>1 DEF Types, Row, Kept, Fits
  <2>1. CASE UNCHANGED <<transfer, server>>
    <3>1. Recorded(t, transfer[t].completed, transfer[t].saved, server[t].stored)
      BY <1>1, <2>1 DEF Recorded, Types, Row, Kept
    <3> QED
      BY <2>0, <3>1
  <2>2. ASSUME NEW known \in SUBSET {n}, server' = [server EXCEPT ![t].stored = @ \cup {n}],
               transfer' = [transfer EXCEPT ![t].completed = @ \cup known]
        PROVE  \E stored \in SUBSET Part, done \in SUBSET Part :
                 /\ server[t].stored \subseteq stored /\ done \subseteq stored
                 /\ Recorded(t, done, transfer[t].saved, stored)
    <3> DEFINE stored == server[t].stored \cup {n}
               done == transfer[t].completed \cup known
    <3>1. stored \in SUBSET Part /\ done \in SUBSET Part /\ server[t].stored \subseteq stored
          /\ done \subseteq stored
      BY <2>0
    <3>2. /\ server' = [server EXCEPT ![t].stored = stored]
          /\ transfer' = [transfer EXCEPT ![t].completed = done]
      BY <2>2
    <3> HIDE DEF stored, done
    <3>3. Recorded(t, done, transfer[t].saved, stored)
      BY <1>1, <3>2 DEF Recorded, Types, Row
    <3> QED
      BY <3>1, <3>2, <3>3
  <2> QED
    BY <1>9, <2>1, <2>2 DEF PartStored
<1>6. server'[t].stored = stored
  BY <1>1, <1>5 DEF Recorded, Types, Kept
<1>7. Progress(q, server'[t])
  <2>1. p.step = "completing" => server[t].stored = Part
    BY <1>1 DEF Fits, Progress
  <2> QED
    BY <1>4, <1>5, <1>6, <2>1 DEF Progress
<1>8. transfer[t].saved \in Marks(transfer[t])
  BY DEF Marks
<1> QED
  BY <1>4, <1>5, <1>7, <1>8, <1>9, PartStep

LEMMA PastType ==
  ASSUME NEW p \in Pump, NEW step \in {"completing", "saving"}
  PROVE  Past(p, step) \in Pump /\ Past(p, step).step = step
         /\ Past(p, step).cancelled = p.cancelled
<1> DEFINE base == NoPump
           flag == p.cancelled
<1>1. base \in Pump /\ flag \in BOOLEAN /\ Past(p, step) = [base EXCEPT !.step = step, !.cancelled = flag]
  BY Numbers DEF Past, Pump
<1> HIDE DEF base, flag
<1>2. /\ [base EXCEPT !.step = step, !.cancelled = flag] \in Pump
      /\ [base EXCEPT !.step = step, !.cancelled = flag].step = step
      /\ [base EXCEPT !.step = step, !.cancelled = flag].cancelled = flag
  BY <1>1 DEF Pump
<1> QED
  BY <1>1, <1>2 DEF flag

\* What a new state is to a file.
LEMMA StateSet ==
  ASSUME Types, NEW t \in Transfer,
         NEW s \in {"new", "waiting", "uploading", "paused", "failed", "finalizing", "complete"},
         transfer' = [transfer EXCEPT ![t].state = s]
  PROVE  /\ transfer' \in [Transfer -> Row] /\ transfer'[t].state = s
         /\ transfer'[t].saved = transfer[t].saved
         /\ \A u \in Transfer : u # t => transfer'[u] = transfer[u]
         /\ transfer'[t].listed = transfer[t].listed
         /\ transfer'[t].cancel = transfer[t].cancel
         /\ transfer'[t].completed = transfer[t].completed
<1> DEFINE x == transfer[t]
           y == [x EXCEPT !.state = s]
<1>1. transfer \in [Transfer -> Row] /\ x \in Row
  BY DEF Types
<1>2. transfer' = [transfer EXCEPT ![t] = y]
  OBVIOUS
<1>3. y \in Row /\ y.state = s
  BY <1>1 DEF Row
<1>4. y.saved = x.saved /\ y.listed = x.listed /\ y.cancel = x.cancel /\ y.completed = x.completed
  BY <1>1 DEF Row
<1> HIDE DEF x, y
<1>5. transfer' \in [Transfer -> Row] /\ transfer'[t] = y
  BY <1>1, <1>2, <1>3
<1>6. \A u \in Transfer : u # t => transfer'[u] = transfer[u]
  BY <1>1, <1>2
<1> QED
  BY <1>3, <1>4, <1>5, <1>6 DEF x

LEMMA LoopEndsInv ==
  ASSUME EngineInv, NEW t \in Transfer, NEW i \in Runtime, LoopEnds(t, i) PROVE EngineInv'
<1> DEFINE p == pump[t][i]
           s == Outcome(t, i)
           step == IF Outcome(t, i) = "finalizing" /\ ~pump[t][i].cancelled
                     THEN "completing" ELSE "saving"
           q == Past(pump[t][i], step)
<1>1. Types /\ Fits(transfer[t], pump[t], server[t]) /\ transfer[t] \in Row /\ p \in Pump
  BY DEF EngineInv, Types
<1>2. /\ transfer' = [transfer EXCEPT ![t].state = s]
      /\ pump' = [pump EXCEPT ![t][i] = q] /\ UNCHANGED server
      /\ p.step = "loop" /\ p.active = {} /\ (p.paused \/ ~MoreParts(p))
  BY DEF LoopEnds
<1>0. transfer[t].state # "new"
  BY <1>1, <1>2 DEF Fits, Untouched, NoPump
<1>3. /\ s \in {"new", "waiting", "uploading", "paused", "failed", "finalizing", "complete"}
      /\ p.cancelled => s = transfer[t].state
      /\ ~p.cancelled => s \in {"failed", "paused", "finalizing"}
      /\ step = "completing" => s = "finalizing" /\ ~p.cancelled /\ ~p.paused
      /\ s = "finalizing" => p.cancelled \/ step = "completing"
      /\ step \in {"completing", "saving"} /\ s # "new"
  BY <1>0, <1>1 DEF Outcome, Row
<1>4. q \in Pump /\ q.step = step /\ q.cancelled = p.cancelled
  BY <1>1, <1>3, PastType
<1> HIDE DEF q, s, step
<1>5. /\ pump' \in [Transfer -> [Runtime -> Pump]] /\ pump'[t][i] = q
      /\ \A u \in Transfer, j \in Runtime : u # t \/ j # i => pump'[u][j] = pump[u][j]
  BY <1>1, <1>2, <1>4 DEF Types
<1>6. /\ transfer' \in [Transfer -> Row] /\ transfer'[t].state = s
      /\ \A u \in Transfer : u # t => transfer'[u] = transfer[u]
      /\ transfer'[t].listed = transfer[t].listed
      /\ transfer'[t].cancel = transfer[t].cancel
      /\ transfer'[t].completed = transfer[t].completed
      /\ transfer'[t].saved = transfer[t].saved
  BY <1>1, <1>2, <1>3, StateSet
<1>7. Progress(q, server[t])
  <2>1. CASE step = "saving"
    BY <1>4, <2>1 DEF Progress
  <2>2. CASE step = "completing"
    <3>1. \A n \in Part : n < p.next
      BY <1>1, <1>2, <1>3, <2>2, Numbers DEF MoreParts, Part, Pump
    <3>2. \A n \in Part : n \in server[t].stored
      BY <1>1, <1>2, <1>3, <2>2, <3>1 DEF Fits, Progress
    <3>3. server[t].stored \subseteq Part
      BY <1>1 DEF Types, Kept
    <3> QED
      BY <1>4, <2>2, <3>2, <3>3 DEF Progress
  <2> QED
    BY <1>3, <2>1, <2>2
<1>8. Shown(transfer'[t], pump'[t])
  <2>1. CASE p.cancelled
    BY <1>1, <1>6, <2>1 DEF Fits, Shown
  <2>2. CASE ~p.cancelled
    BY <1>3, <1>4, <1>5, <1>6, <2>2 DEF Shown, Running
  <2> QED
    BY <2>1, <2>2
<1>9. Stepped(t, i)
  BY <1>1, <1>2, <1>3, <1>4, <1>5, <1>6, <1>7, <1>8 DEF Stepped, Types, Fits
<1> QED
  BY <1>9, PumpStep

LEMMA CompleteInv ==
  ASSUME EngineInv, NEW t \in Transfer, NEW i \in Runtime, Complete(t, i) \/ CompleteFails(t, i)
  PROVE  EngineInv'
<1> DEFINE p == pump[t][i]
           step == "saving"
           available == "AVAILABLE"
<1>1. Types /\ Fits(transfer[t], pump[t], server[t]) /\ transfer[t] \in Row /\ p \in Pump
      /\ step \in {"saving"} /\ available \in {"AVAILABLE"} /\ step = "saving"
  BY DEF EngineInv, Types
<1>2. PICK s \in {"complete", "failed"} :
        /\ transfer' = [transfer EXCEPT ![t].state = s]
        /\ pump' = [pump EXCEPT ![t][i].step = step]
        /\ \/ UNCHANGED server /\ s = "failed"
           \/ server' = [server EXCEPT ![t].state = available]
  BY DEF Complete, CompleteFails, Failed
<1> HIDE DEF step, available
<1>3. /\ pump' \in [Transfer -> [Runtime -> Pump]]
      /\ pump'[t][i].step = step /\ pump'[t][i].cancelled = p.cancelled
      /\ \A u \in Transfer, j \in Runtime : u # t \/ j # i => pump'[u][j] = pump[u][j]
  BY <1>1, <1>2 DEF Types, Pump
<1>4. /\ transfer' \in [Transfer -> Row] /\ transfer'[t].state = s
      /\ \A u \in Transfer : u # t => transfer'[u] = transfer[u]
      /\ transfer'[t].listed = transfer[t].listed
      /\ transfer'[t].cancel = transfer[t].cancel
      /\ transfer'[t].completed = transfer[t].completed
      /\ transfer'[t].saved = transfer[t].saved
  BY <1>1, <1>2, StateSet
<1>5. /\ server' \in [Transfer -> Kept] /\ server'[t].stored = server[t].stored
      /\ \A u \in Transfer : u # t => server'[u] = server[u]
      /\ s = "complete" => server'[t].state = "AVAILABLE"
      /\ server[t].state = "AVAILABLE" => server'[t].state = "AVAILABLE"
  BY <1>1, <1>2 DEF Types, Kept
<1>6. Progress(pump'[t][i], server'[t]) /\ Shown(transfer'[t], pump'[t])
  BY <1>1, <1>3, <1>4 DEF Progress, Shown
<1>7. Stepped(t, i)
  BY <1>1, <1>3, <1>4, <1>5, <1>6 DEF Stepped, Fits
<1> QED
  BY <1>7, PumpStep

\* The end of a run.
LEMMA EndedDoes ==
  ASSUME Types, NEW t \in Transfer, NEW i \in Runtime
  PROVE  /\ Ended(t, i) \in [Transfer -> [Runtime -> Pump]]
         /\ Ended(t, i)[t][i].step = "done" /\ ~Ended(t, i)[t][i].cancelled
         /\ Ended(t, i)[t][i].active = {}
         /\ \A u \in Transfer, j \in Runtime :
              u # t \/ j # i => Ended(t, i)[u][j] = pump[u][j]
<1> DEFINE done == [NoPump EXCEPT !.step = "done"]
<1>1. done \in Pump /\ done.step = "done" /\ done.cancelled = FALSE /\ done.active = {}
  BY Numbers DEF NoPump, Pump
<1>2. Ended(t, i) = [pump EXCEPT ![t][i] = done]
  BY DEF Ended
<1> HIDE DEF done
<1> QED
  BY <1>1, <1>2 DEF Types

LEMMA EndedFits ==
  ASSUME EngineInv, NEW t \in Transfer, NEW i \in Runtime, pump[t][i].step = "saving",
         NEW u \in Transfer
  PROVE  Fits(transfer[u], Ended(t, i)[u], server[u])
<1> DEFINE ended == Ended(t, i)
<1>1. Types /\ Fits(transfer[u], pump[u], server[u])
  BY DEF EngineInv
<1>2. /\ ended[t][i].step = "done" /\ ~ended[t][i].cancelled
      /\ \A v \in Transfer, j \in Runtime : v # t \/ j # i => ended[v][j] = pump[v][j]
  BY <1>1, EndedDoes
<1> HIDE DEF ended
<1>3. \A j \in Runtime : /\ Running(pump[u][j]) => Running(ended[u][j])
                         /\ ended[u][j].cancelled => pump[u][j].cancelled
  BY <1>2 DEF Running
<1>4. \A j \in Runtime : Progress(ended[u][j], server[u])
  BY <1>1, <1>2 DEF Fits, Progress
<1>5. Shown(transfer[u], ended[u])
  BY <1>1, <1>3 DEF Fits, Shown
<1>7. transfer[u].state = "new" => Untouched(transfer[u], ended[u])
  <2>1. pump[t][i] # NoPump
    BY DEF NoPump
  <2> QED
    BY <1>1, <1>2, <2>1 DEF Fits, Untouched
<1>6. Fits(transfer[u], ended[u], server[u])
  BY <1>1, <1>3, <1>4, <1>5, <1>7 DEF Fits
<1> QED
  BY <1>6 DEF ended

\* What a written checkpoint is to the files.
WithCheckpoint(t, saved) == [transfer EXCEPT ![t].saved = saved]

LEMMA CheckpointDoes ==
  ASSUME EngineInv, NEW t \in Transfer, NEW saved \in {transfer[t].saved, Checkpoint(transfer[t])},
         NEW tr, tr = WithCheckpoint(t, saved)
  PROVE  /\ tr \in [Transfer -> Row]
         /\ tr[t].saved = "complete" => server[t].state = "AVAILABLE"
         /\ \A u \in Transfer :
              /\ tr[u].state = transfer[u].state /\ tr[u].listed = transfer[u].listed
              /\ tr[u].completed = transfer[u].completed
              /\ tr[u].cancel = transfer[u].cancel /\ tr[u].current = transfer[u].current
              /\ tr[u].adding = transfer[u].adding
              /\ tr[u].overlooked = transfer[u].overlooked
              /\ u # t => tr[u] = transfer[u]
<1>1. transfer \in [Transfer -> Row] /\ Fits(transfer[t], pump[t], server[t])
  BY DEF EngineInv, Types
<1>2. saved \in {"none", "paused", "complete"} /\ (saved = "complete" => server[t].state = "AVAILABLE")
  BY <1>1 DEF Row, Fits, Checkpoint
<1>3. transfer[t] \in Row
  BY <1>1
<1>4. tr \in [Transfer -> Row] /\ tr[t].saved = saved
  BY <1>1, <1>2, <1>3 DEF Row, WithCheckpoint
<1>5. ASSUME NEW u \in Transfer
      PROVE  /\ tr[u].state = transfer[u].state /\ tr[u].listed = transfer[u].listed
             /\ tr[u].completed = transfer[u].completed
             /\ tr[u].cancel = transfer[u].cancel /\ tr[u].current = transfer[u].current
             /\ tr[u].adding = transfer[u].adding
             /\ tr[u].overlooked = transfer[u].overlooked
             /\ u # t => tr[u] = transfer[u]
  BY <1>1, <1>3 DEF Row, WithCheckpoint
<1> QED
  BY <1>2, <1>4, <1>5

LEMMA SavedInv ==
  ASSUME EngineInv, NEW t \in Transfer, NEW i \in Runtime, Saved(t, i)
  PROVE  EngineInv' /\ ActiveShrinks
<1> DEFINE ended == Ended(t, i)
           saved == IF pump[t][i].cancelled THEN transfer[t].saved ELSE Checkpoint(transfer[t])
           tr == [transfer EXCEPT ![t].saved = saved]
<1>1. Types /\ pump[t][i].step = "saving" /\ UNCHANGED server
  BY DEF EngineInv, Saved
<1>2. /\ ended \in [Transfer -> [Runtime -> Pump]] /\ ended[t][i].active = {}
      /\ \A u \in Transfer, j \in Runtime : u # t \/ j # i => ended[u][j] = pump[u][j]
  BY <1>1, EndedDoes
<1>3. \/ pump' = ended /\ transfer' = tr
      \/ \E u \in Waiters(t, i) : Run(u, tr, ended)
  BY DEF Saved
<1>4. \A u \in Transfer : Fits(transfer[u], ended[u], server[u])
  BY <1>1, EndedFits
<1>5. /\ tr \in [Transfer -> Row]
      /\ tr[t].saved = "complete" => server[t].state = "AVAILABLE"
      /\ \A u \in Transfer :
           /\ tr[u].state = transfer[u].state /\ tr[u].listed = transfer[u].listed
           /\ tr[u].completed = transfer[u].completed
           /\ tr[u].cancel = transfer[u].cancel /\ tr[u].current = transfer[u].current
           /\ u # t => tr[u] = transfer[u]
  <2>1. saved \in {transfer[t].saved, Checkpoint(transfer[t])}
    OBVIOUS
  <2>2. tr = WithCheckpoint(t, saved)
    BY DEF WithCheckpoint
  <2> HIDE DEF saved, tr
  <2> QED
    BY <2>1, <2>2, CheckpointDoes
<1> HIDE DEF ended, saved, tr
<1>6. ASSUME NEW u \in Transfer PROVE Fits(tr[u], ended[u], server[u])
  <2>1. Fits(transfer[u], ended[u], server[u])
    BY <1>4
  <2>2. Shown(tr[u], ended[u])
    BY <1>5, <2>1 DEF Fits, Shown
  <2>3. transfer[t].state # "new"
    BY <1>1 DEF EngineInv, Fits, Untouched, NoPump
  <2> QED
    BY <1>5, <2>1, <2>2, <2>3 DEF Fits
<1>7. CASE pump' = ended /\ transfer' = tr
  <2>1. EngineInv'
    BY <1>1, <1>2, <1>5, <1>6, <1>7 DEF EngineInv, Types
  <2>2. ActiveShrinks
    BY <1>2, <1>7 DEF ActiveShrinks
  <2> QED
    BY <2>1, <2>2
<1>8. ASSUME NEW u \in Waiters(t, i), Run(u, tr, ended)
      PROVE  EngineInv' /\ ActiveShrinks
  <2>1. PICK c \in Runtime : c = tr[u].current
    BY <1>1, <1>5, <1>8 DEF Waiters, Types, Row
  <2>2. u \in Transfer /\ tr[u].state = "waiting"
    BY <1>5, <1>8 DEF Waiters
  <2>3. Ran(u, c, tr, ended, transfer', pump')
    BY <1>5, <1>8, <2>1, <2>2, RunRan
  <2>4. /\ transfer' \in [Transfer -> Row] /\ pump' \in [Transfer -> [Runtime -> Pump]]
        /\ \A v \in Transfer : v # u => transfer'[v] = tr[v]
        /\ Same(tr[u], transfer'[u])
        /\ \A v \in Transfer, j \in Runtime : v # u \/ j # c => pump'[v][j] = ended[v][j]
        /\ Turned(tr[u], ended[u][c], transfer'[u], pump'[u][c])
    BY SMTT(30), <1>2, <1>5, <2>2, <2>3, RunDoes
  <2>5. \/ pump'[u][c] = ended[u][c] /\ transfer'[u].state = "waiting"
        \/ /\ transfer'[u].state = "uploading"
           /\ pump'[u][c].step = "loop" /\ pump'[u][c].next = 1
           /\ pump'[u][c].cancelled = ended[u][c].cancelled
           /\ pump'[u][c].active = ended[u][c].active
    BY <2>2, <2>4 DEF Turned
  <2>6. Fits(transfer'[u], pump'[u], server'[u])
    <3>0. Fits(tr[u], ended[u], server[u])
      BY <1>6, <2>2
    <3>1. ASSUME NEW j \in Runtime PROVE Progress(pump'[u][j], server'[u])
      <4>1. Progress(ended[u][j], server[u])
        BY <3>0 DEF Fits
      <4>2. CASE j = c
        BY <1>1, <2>5, <4>1, <4>2 DEF Progress, Part
      <4>3. CASE j # c
        BY <1>1, <2>2, <2>4, <4>1, <4>3
      <4> QED
        BY <4>2, <4>3
    <3>2. \A j \in Runtime : pump'[u][j].cancelled = ended[u][j].cancelled
      BY <2>2, <2>4, <2>5
    <3>3. Shown(transfer'[u], pump'[u])
      BY <2>1, <2>5 DEF Shown, Running
    <3> QED
      BY <1>1, <2>2, <2>4, <2>5, <3>0, <3>1, <3>2, <3>3 DEF Fits, Same
  <2>7. ASSUME NEW v \in Transfer, v # u PROVE Fits(transfer'[v], pump'[v], server'[v])
    <3>1. pump'[v] = ended[v] /\ transfer'[v] = tr[v] /\ server'[v] = server[v]
      BY <1>1, <1>2, <2>4, <2>7
    <3> QED
      BY <1>6, <3>1
  <2>8. ActiveShrinks
    <3>1. \A v \in Transfer, j \in Runtime : ended[v][j].active \subseteq pump[v][j].active
      BY <1>2
    <3>2. \A v \in Transfer, j \in Runtime : pump'[v][j].active = ended[v][j].active
      BY <2>4, <2>5
    <3> QED
      BY <3>1, <3>2 DEF ActiveShrinks
  <2>9. EngineInv'
    BY <1>1, <2>4, <2>6, <2>7 DEF EngineInv, Types
  <2> QED
    BY <2>8, <2>9
<1> QED
  BY <1>3, <1>7, <1>8

\* Files that are overlooked differ in nothing else.
LEMMA SaveFailsDoes ==
  ASSUME Types, NEW t \in Transfer, NEW i \in Runtime, SaveFails(t, i)
  PROVE  /\ transfer' \in [Transfer -> Row]
         /\ \A u \in Transfer :
              /\ Same(transfer[u], transfer'[u]) /\ transfer'[u].state = transfer[u].state
              /\ transfer'[u].overlooked =
                   (transfer[u].overlooked \/ u \in Waiters(t, i))
<1>1. ASSUME NEW u \in Transfer
      PROVE  /\ transfer'[u] \in Row
             /\ Same(transfer[u], transfer'[u]) /\ transfer'[u].state = transfer[u].state
             /\ transfer'[u].overlooked = (transfer[u].overlooked \/ u \in Waiters(t, i))
  <2>1. /\ transfer'[u] = IF u \in Waiters(t, i) THEN [transfer[u] EXCEPT !.overlooked = TRUE]
                                                 ELSE transfer[u]
        /\ transfer[u] \in Row
    BY DEF SaveFails, Types
  <2> QED
    BY <2>1 DEF Row, Same
<1> QED
  BY <1>1 DEF SaveFails

LEMMA SaveFailsInv ==
  ASSUME EngineInv, NEW t \in Transfer, NEW i \in Runtime, SaveFails(t, i)
  PROVE  EngineInv' /\ ActiveShrinks
<1>1. Types /\ pump[t][i].step = "saving" /\ UNCHANGED server /\ pump' = Ended(t, i)
  BY DEF EngineInv, SaveFails
<1>2. /\ pump' \in [Transfer -> [Runtime -> Pump]] /\ pump'[t][i].active = {}
      /\ \A u \in Transfer, j \in Runtime : u # t \/ j # i => pump'[u][j] = pump[u][j]
  BY <1>1, EndedDoes
<1>3. /\ transfer' \in [Transfer -> Row]
      /\ \A u \in Transfer :
           Same(transfer[u], transfer'[u]) /\ transfer'[u].state = transfer[u].state
  BY <1>1, SaveFailsDoes
<1>4. ASSUME NEW u \in Transfer PROVE Fits(transfer'[u], pump'[u], server'[u])
  <2>1. Fits(transfer[u], pump'[u], server'[u])
    BY <1>1, EndedFits
  <2> QED
    BY <1>3, <2>1 DEF Fits, Untouched, Shown, Same
<1> QED
  BY <1>1, <1>2, <1>3, <1>4 DEF EngineInv, Types, ActiveShrinks

\* Steps of the user and the server that move no pump but to pause or cancel it.
LEMMA ToldDoes ==
  ASSUME Types, NEW t \in Transfer, NEW cancelled \in BOOLEAN
  PROVE  /\ Told(t, cancelled) \in [Transfer -> [Runtime -> Pump]]
         /\ \A u \in Transfer : u # t => Told(t, cancelled)[u] = pump[u]
         /\ \A j \in Runtime :
              \/ Told(t, cancelled)[t][j] = pump[t][j]
              \/ /\ Told(t, cancelled)[t][j].paused
                 /\ Told(t, cancelled)[t][j].step = pump[t][j].step
                 /\ Told(t, cancelled)[t][j].active = pump[t][j].active
                 /\ ~cancelled => Told(t, cancelled)[t][j].cancelled = pump[t][j].cancelled
<1> DEFINE i == transfer[t].current
           told == Told(t, cancelled)
           flag == pump[t][i].cancelled \/ cancelled
<1>1. \/ told = pump
      \/ i # 0 /\ told = [pump EXCEPT ![t][i].paused = TRUE, ![t][i].cancelled = flag]
  BY DEF Told
<1>2. i \in Runtime \cup {0}
  BY DEF Types, Row
<1>5. flag \in BOOLEAN /\ (~cancelled => (flag <=> pump[t][i].cancelled))
  OBVIOUS
<1> HIDE DEF told, flag
<1>3. CASE told = pump
  BY <1>3 DEF Types, told
<1>4. CASE i # 0 /\ told = [pump EXCEPT ![t][i].paused = TRUE, ![t][i].cancelled = flag]
  <2>1. i \in Runtime /\ pump[t][i] \in Pump /\ pump[t][i].cancelled \in BOOLEAN
    BY <1>2, <1>4 DEF Types, Pump
  <2> HIDE DEF i
  <2>2. /\ told \in [Transfer -> [Runtime -> Pump]]
        /\ \A u \in Transfer : u # t => told[u] = pump[u]
        /\ \A j \in Runtime : j # i => told[t][j] = pump[t][j]
    BY <1>4, <1>5, <2>1 DEF Types, Pump
  <2>3. /\ told[t][i].paused /\ told[t][i].step = pump[t][i].step
        /\ told[t][i].active = pump[t][i].active /\ told[t][i].cancelled = flag
    BY <1>4, <1>5, <2>1 DEF Types, Pump
  <2>4. ~cancelled => told[t][i].cancelled = pump[t][i].cancelled
    BY <1>5, <2>1, <2>3
  <2> QED
    BY <2>2, <2>3, <2>4 DEF told
<1> QED
  BY SMTT(30), <1>1, <1>3, <1>4

LEMMA PauseInv == ASSUME EngineInv, NEW t \in Transfer, Pause(t) PROVE EngineInv'
<1> DEFINE s == "paused"
<1>1. Types /\ Fits(transfer[t], pump[t], server[t]) /\ s = "paused" /\ transfer[t] \in Row
      /\ UNCHANGED server
  BY DEF EngineInv, Types, Pause
<1>2. PICK saved \in {transfer[t].saved, "paused"} :
        transfer' = [transfer EXCEPT ![t].state = s, ![t].saved = saved]
  BY DEF Pause
<1> HIDE DEF s
<1>3. /\ pump' \in [Transfer -> [Runtime -> Pump]]
      /\ \A u \in Transfer : u # t => pump'[u] = pump[u]
      /\ \A j \in Runtime :
           \/ pump'[t][j] = pump[t][j]
           \/ /\ pump'[t][j].paused /\ pump'[t][j].step = pump[t][j].step
              /\ pump'[t][j].cancelled = pump[t][j].cancelled
  BY <1>1, ToldDoes DEF Pause
<1>4. /\ transfer' \in [Transfer -> Row] /\ transfer'[t].state = s
      /\ \A u \in Transfer : u # t => transfer'[u] = transfer[u]
      /\ transfer'[t].listed = transfer[t].listed
      /\ transfer'[t].cancel = transfer[t].cancel
      /\ transfer'[t].completed = transfer[t].completed
      /\ transfer'[t].saved = saved
  BY <1>1, <1>2 DEF Types, Row
<1>5. Fits(transfer'[t], pump'[t], server'[t])
  <2>1. \A j \in Runtime : Progress(pump'[t][j], server'[t])
    BY <1>1, <1>3 DEF Fits, Progress
  <2>2. \A j \in Runtime : pump'[t][j].cancelled = pump[t][j].cancelled
    BY <1>3
  <2> QED
    BY <1>1, <1>4, <2>1, <2>2 DEF Fits, Shown
<1> QED
  BY <1>1, <1>3, <1>4, <1>5, OneFile DEF Types

LEMMA CancelStartInv == ASSUME EngineInv, NEW t \in Transfer, CancelStart(t) PROVE EngineInv'
<1> DEFINE asked == "asked"
<1>1. Types /\ Fits(transfer[t], pump[t], server[t])
      /\ asked = "asked" /\ transfer[t] \in Row
  BY DEF EngineInv, Types
<1>2. /\ transfer' = [transfer EXCEPT ![t].cancel = asked] /\ UNCHANGED server
      /\ transfer[t].listed /\ pump' = Told(t, TRUE)
  BY DEF CancelStart
<1> HIDE DEF asked
<1>3. /\ pump' \in [Transfer -> [Runtime -> Pump]]
      /\ \A u \in Transfer : u # t => pump'[u] = pump[u]
      /\ \A j \in Runtime : \/ pump'[t][j] = pump[t][j]
                              \/ /\ pump'[t][j].paused
                                 /\ pump'[t][j].step = pump[t][j].step
  BY <1>1, <1>2, ToldDoes
<1>4. /\ transfer' \in [Transfer -> Row] /\ transfer'[t].cancel = asked
      /\ \A u \in Transfer : u # t => transfer'[u] = transfer[u]
      /\ transfer'[t].listed = transfer[t].listed /\ transfer'[t].state = transfer[t].state
      /\ transfer'[t].completed = transfer[t].completed
      /\ transfer'[t].saved = transfer[t].saved
  BY <1>1, <1>2 DEF Types, Row
<1>5. Fits(transfer'[t], pump'[t], server'[t])
  <2>1. \A j \in Runtime : Progress(pump'[t][j], server'[t])
    BY <1>1, <1>2, <1>3 DEF Fits, Progress
  <2>2. asked # "no" /\ transfer[t].state # "new"
    BY <1>1, <1>2 DEF Fits, Untouched
  <2> QED
    BY <1>1, <1>2, <1>4, <2>1, <2>2 DEF Fits, Shown
<1> QED
  BY <1>1, <1>2, <1>3, <1>4, <1>5, OneFile DEF Types

LEMMA CancelEndsInv ==
  ASSUME EngineInv, NEW t \in Transfer, CancelDone(t) \/ CancelFails(t) PROVE EngineInv'
<1> DEFINE no == "no"
           refused == "refused"
           zero == 0
           aborted == "ABORTED"
<1>1. Types /\ Fits(transfer[t], pump[t], server[t]) /\ transfer[t] \in Row
      /\ no = "no" /\ refused = "refused"
      /\ zero = 0 /\ aborted = "ABORTED"
  BY DEF EngineInv, Types
<1>2. CASE CancelDone(t)
  <2>1. PICK saved \in {transfer[t].saved, "none"} :
          transfer' = [transfer EXCEPT ![t].cancel = no, ![t].listed = FALSE,
                                       ![t].current = zero, ![t].saved = saved]
    BY <1>2 DEF CancelDone
  <2>2. /\ server' = [server EXCEPT ![t].state = aborted] /\ UNCHANGED pump
        /\ server[t].state # "AVAILABLE"
    BY <1>2 DEF CancelDone
  <2> HIDE DEF no, refused, zero, aborted
  <2>3. /\ server' \in [Transfer -> Kept] /\ server'[t].stored = server[t].stored
        /\ \A u \in Transfer : u # t => server'[u] = server[u]
    BY <1>1, <2>2 DEF Types, Kept
  <2>4. /\ transfer' \in [Transfer -> Row] /\ ~transfer'[t].listed
        /\ \A u \in Transfer : u # t => transfer'[u] = transfer[u]
        /\ transfer'[t].state = transfer[t].state
        /\ transfer'[t].completed = transfer[t].completed
        /\ transfer'[t].saved = saved
        /\ transfer'[t].adding = transfer[t].adding /\ transfer'[t].resumes = transfer[t].resumes
    BY <1>1, <2>1 DEF Types, Row
  <2>5. Fits(transfer'[t], pump'[t], server'[t])
    BY <1>1, <2>2, <2>3, <2>4 DEF Fits, Untouched, Shown, Progress
  <2> QED
    BY <1>1, <2>2, <2>3, <2>4, <2>5, OneFile DEF Types
<1>3. CASE CancelFails(t)
  <2>1. /\ UNCHANGED <<pump, server>> /\ transfer' = [transfer EXCEPT ![t].cancel = refused]
    BY <1>3 DEF CancelFails
  <2> HIDE DEF no, refused, zero, aborted
  <2>2. /\ transfer' \in [Transfer -> Row] /\ transfer'[t].cancel = refused
        /\ \A u \in Transfer : u # t => transfer'[u] = transfer[u]
        /\ transfer'[t].state = transfer[t].state /\ transfer'[t].listed = transfer[t].listed
        /\ transfer'[t].completed = transfer[t].completed
        /\ transfer'[t].saved = transfer[t].saved
        /\ transfer'[t].adding = transfer[t].adding /\ transfer'[t].resumes = transfer[t].resumes
    BY <1>1, <2>1 DEF Types, Row
  <2>3. Fits(transfer'[t], pump'[t], server'[t])
    BY <1>1, <2>1, <2>2 DEF Fits, Untouched, Shown
  <2> QED
    BY <1>1, <2>1, <2>2, <2>3, OneFile DEF Types
<1> QED
  BY <1>2, <1>3

LEMMA ResumeEndsInv ==
  ASSUME EngineInv, NEW t \in Transfer, ResumeStart(t) \/ ResumeComplete(t) \/ ResumeFails(t)
  PROVE  EngineInv'
<1> DEFINE complete == "complete"
           less == transfer[t].resumes - 1
           more == transfer[t].resumes + 1
<1>1. Types /\ Fits(transfer[t], pump[t], server[t]) /\ transfer[t] \in Row
      /\ complete = "complete" /\ UNCHANGED <<pump, server>>
  BY DEF EngineInv, Types, ResumeStart, ResumeComplete, ResumeFails
<1>2. more \in Nat /\ (transfer[t].resumes > 0 => less \in Nat)
  BY SMTT(30), <1>1 DEF Row
<1>3. PICK saved \in {"none", "paused", "complete"}, n \in Nat,
           s \in {"new", "waiting", "uploading", "paused", "failed", "finalizing", "complete"} :
        /\ transfer' = [transfer EXCEPT ![t].resumes = n, ![t].state = s, ![t].saved = saved]
        /\ \/ s = transfer[t].state /\ saved = transfer[t].saved
           \/ /\ server[t].state = "AVAILABLE" /\ s = complete
              /\ saved \in {transfer[t].saved, complete}
  <2>0. /\ transfer[t].saved \in {"none", "paused", "complete"}
        /\ transfer[t].state \in
             {"new", "waiting", "uploading", "paused", "failed", "finalizing", "complete"}
    BY SMTT(30), <1>1 DEF Row
  <2>1. CASE ResumeStart(t)
    <3>1. transfer' = [transfer EXCEPT ![t].resumes = more]
      BY <2>1 DEF ResumeStart
    <3> HIDE DEF more
    <3>2. transfer' = [transfer EXCEPT ![t].resumes = more, ![t].state = transfer[t].state,
                                       ![t].saved = transfer[t].saved]
      BY <1>1, <3>1 DEF Types, Row
    <3> QED
      BY <1>2, <2>0, <3>2
  <2>2. CASE ResumeFails(t)
    <3>1. transfer' = [transfer EXCEPT ![t].resumes = less] /\ less \in Nat
      BY <1>2, <2>2 DEF ResumeFails
    <3> HIDE DEF less
    <3>2. transfer' = [transfer EXCEPT ![t].resumes = less, ![t].state = transfer[t].state,
                                       ![t].saved = transfer[t].saved]
      BY <1>1, <3>1 DEF Types, Row
    <3> QED
      BY <2>0, <3>1, <3>2
  <2>3. CASE ResumeComplete(t)
    <3>1. /\ less \in Nat /\ server[t].state = "AVAILABLE"
          /\ \E saved \in {transfer[t].saved, complete} :
               transfer' = [transfer EXCEPT ![t].resumes = less, ![t].state = complete,
                                            ![t].saved = saved]
      BY <1>2, <2>3 DEF ResumeComplete
    <3> HIDE DEF less
    <3> QED
      BY <2>0, <3>1
  <2> QED
    BY <2>1, <2>2, <2>3
<1>7. transfer[t].state # "new"
  BY <1>1 DEF ResumeStart, ResumeComplete, ResumeFails, Fits, Untouched
<1>8. s = "new" => s = transfer[t].state
  BY <1>1, <1>3
<1> HIDE DEF complete, less, more
<1>5. /\ transfer' \in [Transfer -> Row]
      /\ \A u \in Transfer : u # t => transfer'[u] = transfer[u]
      /\ transfer'[t].listed = transfer[t].listed
      /\ transfer'[t].cancel = transfer[t].cancel
      /\ transfer'[t].completed = transfer[t].completed
      /\ transfer'[t].state = s /\ transfer'[t].saved = saved
  BY <1>1, <1>3 DEF Types, Row
<1>6. Fits(transfer'[t], pump'[t], server'[t])
  BY <1>1, <1>3, <1>5, <1>7 DEF Fits, Shown
<1> QED
  BY <1>1, <1>5, <1>6, OneFile DEF Types

\* What a reload leaves of a file.
LEMMA ReloadDoes ==
  ASSUME EngineInv, Reload, NEW t \in Transfer
  PROVE  /\ transfer'[t] \in Row /\ transfer'[t].completed = transfer[t].completed
         /\ transfer'[t].state \in {"new", "complete", "paused"}
         /\ transfer'[t].state = "new" =>
              /\ transfer[t].state = "new" /\ ~transfer'[t].listed /\ ~transfer'[t].adding
              /\ transfer'[t].saved = "none" /\ transfer'[t].resumes = 0
         /\ ~transfer'[t].adding
         /\ transfer'[t].state = "complete" => server[t].state = "AVAILABLE"
         /\ transfer'[t].saved = "complete" => server[t].state = "AVAILABLE"
<1> DEFINE x == transfer[t]
           no == "no"
           zero == 0
<1>1. PICK saved \in {x.saved, Checkpoint(x)} :
        /\ transfer'[t] = [x EXCEPT !.state = IF @ = "new" THEN @
                                              ELSE IF saved = "complete" THEN "complete"
                                              ELSE "paused",
                                    !.listed = saved # "none", !.saved = saved,
                                    !.current = 0, !.resumes = 0, !.cancel = "no",
                                    !.adding = FALSE, !.overlooked = FALSE]
        /\ x.state = "new" => saved = "none"
  <2>1. PICK written \in SUBSET Saving :
          LET kept(u) == IF u \in written THEN Checkpoint(transfer[u]) ELSE transfer[u].saved
          IN transfer' = [u \in Transfer |->
               [transfer[u] EXCEPT !.state = IF @ = "new" THEN @
                                             ELSE IF kept(u) = "complete" THEN "complete"
                                             ELSE "paused",
                                   !.listed = kept(u) # "none", !.saved = kept(u),
                                   !.current = 0, !.resumes = 0, !.cancel = "no",
                                   !.adding = FALSE, !.overlooked = FALSE]]
    BY DEF Reload
  <2>2. x.state = "new" => Untouched(x, pump[t])
    BY DEF EngineInv, Fits
  <2>3. x.state = "new" => t \notin Saving /\ x.saved = "none"
    BY <2>2 DEF Untouched, Saving, NoPump
  <2> QED
    BY <2>1, <2>3
<1> DEFINE s == IF x.state = "new" THEN x.state
                ELSE IF saved = "complete" THEN "complete" ELSE "paused"
           shown == saved # "none"
<1>2. /\ x \in Row /\ Fits(x, pump[t], server[t])
      /\ saved \in {"none", "paused", "complete"} /\ shown \in BOOLEAN
      /\ s \in {"new", "complete", "paused"}
      /\ zero \in {0} \cup Runtime /\ zero \in Nat /\ no = "no"
  BY <1>1 DEF EngineInv, Types, Row, Checkpoint
<1>3. transfer'[t] = [x EXCEPT !.state = s, !.listed = shown, !.saved = saved,
                               !.current = zero, !.resumes = zero, !.cancel = no,
                               !.adding = FALSE, !.overlooked = FALSE]
  BY <1>1
<1>4. /\ saved = "complete" => server[t].state = "AVAILABLE"
      /\ s = "complete" => saved = "complete"
      /\ s = "new" => x.state = "new"
      /\ shown <=> saved # "none"
  BY <1>1, <1>2 DEF Fits, Checkpoint
<1> HIDE DEF s, shown, no, zero, x
<1>5. /\ transfer'[t] \in Row /\ transfer'[t].completed = x.completed
      /\ transfer'[t].state = s /\ transfer'[t].saved = saved /\ transfer'[t].listed = shown
      /\ ~transfer'[t].adding /\ transfer'[t].resumes = zero
  BY <1>2, <1>3 DEF Row
<1>6. zero = 0
  BY DEF zero
<1> QED
  BY <1>1, <1>2, <1>4, <1>5, <1>6 DEF x

LEMMA ReloadInv == ASSUME EngineInv, Reload PROVE EngineInv'
<1>1. Types /\ UNCHANGED server /\ \A t \in Transfer : Fits(transfer[t], pump[t], server[t])
  BY DEF EngineInv, Reload
<1>2. transfer' \in [Transfer -> Row]
  <2>1. \A t \in Transfer : transfer'[t] \in Row
    BY ReloadDoes
  <2> QED
    BY <2>1 DEF Reload
<1>3. /\ [NoPump EXCEPT !.step = "done"] \in Pump
      /\ [NoPump EXCEPT !.step = "done"].step = "done"
      /\ [NoPump EXCEPT !.step = "done"].cancelled = FALSE
      /\ NoPump \in Pump /\ NoPump.step = "none" /\ NoPump.cancelled = FALSE
  BY Numbers DEF NoPump, Pump
<1> DEFINE done == [NoPump EXCEPT !.step = "done"]
<1>4. pump' = [t \in Transfer |-> [i \in Runtime |->
                 IF pump[t][i].step = "none" THEN NoPump ELSE done]]
  BY DEF Reload
<1> HIDE DEF done
<1>5. /\ pump' \in [Transfer -> [Runtime -> Pump]]
      /\ \A t \in Transfer, i \in Runtime :
           /\ pump'[t][i].step \in {"none", "done"} /\ ~pump'[t][i].cancelled
           /\ pump[t][i] = NoPump => pump'[t][i] = NoPump
  BY <1>3, <1>4 DEF done
<1>6. ASSUME NEW t \in Transfer PROVE Fits(transfer'[t], pump'[t], server'[t])
  <2>1. /\ transfer'[t].completed = transfer[t].completed
        /\ transfer'[t].state \in {"new", "complete", "paused"}
        /\ transfer'[t].state = "new" =>
             /\ transfer[t].state = "new" /\ ~transfer'[t].listed /\ ~transfer'[t].adding
             /\ transfer'[t].saved = "none" /\ transfer'[t].resumes = 0
        /\ transfer'[t].state = "complete" => server[t].state = "AVAILABLE"
        /\ transfer'[t].saved = "complete" => server[t].state = "AVAILABLE"
    BY ReloadDoes
  <2>2. transfer'[t].state = "new" => Untouched(transfer'[t], pump'[t])
    BY <1>1, <1>5, <2>1 DEF Fits, Untouched
  <2> QED
    BY <1>1, <1>5, <2>1, <2>2 DEF Fits, Shown, Progress
<1> QED
  BY <1>1, <1>2, <1>5, <1>6 DEF EngineInv, Types

LEMMA EngineNext == EngineInv /\ [Next]_vars => EngineInv'
<1> SUFFICES ASSUME EngineInv, [Next]_vars PROVE EngineInv'
  OBVIOUS
<1>1. ASSUME NEW t \in Transfer, Add(t) \/ Added(t) \/ AddFails(t) \/ Resume(t)
      PROVE  EngineInv'
  BY <1>1, AddInv, AddFailsInv, RestartInv
<1>2. ASSUME NEW t \in Transfer, ResumeStart(t) \/ ResumeComplete(t) \/ ResumeFails(t)
      PROVE  EngineInv'
  BY <1>2, ResumeEndsInv
<1>3. ASSUME NEW t \in Transfer, Pause(t) \/ CancelStart(t) \/ CancelDone(t) \/ CancelFails(t)
      PROVE  EngineInv'
  BY <1>3, PauseInv, CancelStartInv, CancelEndsInv
<1>4. ASSUME NEW t \in Transfer, NEW i \in Runtime, Pumping(t, i) PROVE EngineInv'
  <2>1. CASE Launch(t, i) \/ LoopEnds(t, i)
    BY <2>1, LaunchInv, LoopEndsInv
  <2>2. CASE Complete(t, i) \/ CompleteFails(t, i)
    BY <2>2, CompleteInv
  <2>3. CASE Saved(t, i) \/ SaveFails(t, i)
    BY <2>3, SavedInv, SaveFailsInv
  <2>4. ASSUME NEW n \in Part, PartDone(t, i, n) \/ PartStops(t, i, n) \/ PartGivesUp(t, i, n)
        PROVE  EngineInv'
    BY <2>4, PartDoneInv, PartStopsInv
  <2> QED
    BY <1>4, <2>1, <2>2, <2>3, <2>4 DEF Pumping
<1>5. CASE Reload
  BY <1>5, ReloadInv
<1>6. CASE UNCHANGED vars
  BY <1>6 DEF EngineInv, Types, vars
<1> QED
  BY <1>1, <1>2, <1>3, <1>4, <1>5, <1>6 DEF Next

LEMMA EngineInvariant == Spec => []EngineInv
BY EngineInit, EngineNext, PTL DEF Spec

----------------------------------------------------------------------------
(* Parts in flight.                                                        *)

LEMMA StepShrinks ==
  ASSUME EngineInv, [Next]_vars,
         \A t \in Transfer, i \in Runtime : ~Launch(t, i)
  PROVE  ActiveShrinks
<1>0. Types /\ \A t \in Transfer, i \in Runtime : pump[t][i] \in Pump
  BY DEF EngineInv, Types
<1>1. ASSUME NEW t \in Transfer, Added(t) \/ Resume(t) PROVE ActiveShrinks
  BY <1>1, RestartInv
<1>2. ASSUME NEW t \in Transfer,
             \/ Add(t) \/ AddFails(t) \/ ResumeStart(t) \/ ResumeComplete(t) \/ ResumeFails(t)
             \/ CancelDone(t) \/ CancelFails(t)
      PROVE  ActiveShrinks
  <2>1. UNCHANGED pump
    BY <1>2
       DEF Add, AddFails, ResumeStart, ResumeComplete, ResumeFails, CancelDone, CancelFails
  <2> QED
    BY <2>1 DEF ActiveShrinks
<1>3. ASSUME NEW t \in Transfer, Pause(t) \/ CancelStart(t) PROVE ActiveShrinks
  <2>1. PICK cancelled \in BOOLEAN : pump' = Told(t, cancelled)
    BY <1>3 DEF Pause, CancelStart
  <2>2. /\ \A u \in Transfer : u # t => pump'[u] = pump[u]
        /\ \A j \in Runtime : pump'[t][j].active = pump[t][j].active
    BY <1>0, <2>1, ToldDoes
  <2> QED
    BY <2>2 DEF ActiveShrinks
<1>5. ASSUME NEW t \in Transfer, NEW i \in Runtime, LoopEnds(t, i) PROVE ActiveShrinks
  <2> DEFINE q == Past(pump[t][i], IF Outcome(t, i) = "finalizing" /\ ~pump[t][i].cancelled
                                     THEN "completing" ELSE "saving")
  <2>1. pump' = [pump EXCEPT ![t][i] = q]
    BY <1>5 DEF LoopEnds
  <2>2. q.active = {}
    BY DEF Past, NoPump
  <2> HIDE DEF q
  <2> QED
    BY <1>0, <2>1, <2>2 DEF ActiveShrinks, Types
<1>6. ASSUME NEW t \in Transfer, NEW i \in Runtime, Complete(t, i) \/ CompleteFails(t, i)
      PROVE  ActiveShrinks
  <2>1. pump' = [pump EXCEPT ![t][i].step = "saving"]
    BY <1>6 DEF Complete, CompleteFails
  <2> QED
    BY <1>0, <2>1 DEF ActiveShrinks, Types, Pump
<1>7. ASSUME NEW t \in Transfer, NEW i \in Runtime, Saved(t, i) \/ SaveFails(t, i)
      PROVE  ActiveShrinks
  BY <1>7, SavedInv, SaveFailsInv
<1>8. ASSUME NEW t \in Transfer, NEW i \in Runtime, NEW n \in Part,
             PartDone(t, i, n) \/ PartStops(t, i, n) \/ PartGivesUp(t, i, n)
      PROVE  ActiveShrinks
  <2> DEFINE left == pump[t][i].active \ {n}
  <2>1. \/ pump' = [pump EXCEPT ![t][i].active = left]
        \/ pump' = [pump EXCEPT ![t][i].active = left, ![t][i].error = TRUE,
                                ![t][i].paused = TRUE]
    BY <1>8 DEF PartDone, PartStops, PartGivesUp
  <2>2. left \subseteq pump[t][i].active
    OBVIOUS
  <2> HIDE DEF left
  <2>3. CASE pump' = [pump EXCEPT ![t][i].active = left]
    BY <1>0, <2>2, <2>3 DEF ActiveShrinks, Types, Pump
  <2>4. CASE pump' = [pump EXCEPT ![t][i].active = left, ![t][i].error = TRUE,
                                  ![t][i].paused = TRUE]
    BY <1>0, <2>2, <2>4 DEF ActiveShrinks, Types, Pump
  <2> QED
    BY SMTT(30), <2>1, <2>3, <2>4
<1>9. CASE Reload
  <2>1. NoPump.active = {} /\ [NoPump EXCEPT !.step = "done"].active = {}
    BY DEF NoPump
  <2> QED
    BY <1>0, <1>9, <2>1 DEF ActiveShrinks, Types, Reload
<1>10. CASE UNCHANGED vars
  BY <1>10 DEF vars, ActiveShrinks
<1> QED
  BY <1>1, <1>2, <1>3, <1>5, <1>6, <1>7, <1>8, <1>9, <1>10 DEF Next, Pumping

Bounded ==
  \A t \in Transfer, i \in Runtime : Cardinality(pump[t][i].active) <= MaxLimit

LEMMA BoundedNext == EngineInv /\ EngineInv' /\ Bounded /\ [Next]_vars => Bounded'
<1> SUFFICES ASSUME EngineInv, EngineInv', Bounded, [Next]_vars PROVE Bounded'
  OBVIOUS
<1>0. \A t \in Transfer, i \in Runtime : pump[t][i] \in Pump /\ IsFiniteSet(pump[t][i].active)
  <2>1. IsFiniteSet(Part)
    BY Numbers, FS_Interval DEF Part
  <2>2. \A t \in Transfer, i \in Runtime : pump[t][i] \in Pump /\ pump[t][i].active \subseteq Part
    BY DEF EngineInv, Types, Pump
  <2> QED
    BY <2>1, <2>2, FS_Subset
<1>1. CASE \A t \in Transfer, i \in Runtime : ~Launch(t, i)
  <2>1. ActiveShrinks
    BY <1>1, StepShrinks
  <2>2. ASSUME NEW t \in Transfer, NEW i \in Runtime
        PROVE  Cardinality(pump'[t][i].active) <= MaxLimit
    <3>1. /\ pump'[t][i].active \subseteq pump[t][i].active /\ IsFiniteSet(pump[t][i].active)
          /\ Cardinality(pump[t][i].active) <= MaxLimit
      BY <1>0, <2>1 DEF ActiveShrinks, Bounded
    <3>2. /\ IsFiniteSet(pump'[t][i].active)
          /\ Cardinality(pump'[t][i].active) <= Cardinality(pump[t][i].active)
      BY <3>1, FS_Subset
    <3> QED
      BY <3>1, <3>2, FS_CardinalityType, Numbers
  <2> QED
    BY <2>2 DEF Bounded
<1>2. ASSUME NEW t \in Transfer, NEW i \in Runtime, Launch(t, i) PROVE Bounded'
  <2> DEFINE old == pump[t][i].active
             n == pump[t][i].next
             added == pump[t][i].active \cup ({pump[t][i].next} \ transfer[t].completed)
             next == pump[t][i].next + 1
  <2>1. /\ pump' = [pump EXCEPT ![t][i].next = next, ![t][i].active = added]
        /\ Cardinality(old) < MaxLimit /\ IsFiniteSet(old)
    BY <1>0, <1>2 DEF Launch, Room
  <2>2. added = old \/ added = old \cup {n}
    OBVIOUS
  <2> HIDE DEF old, n, added, next
  <2>3. Cardinality(added) <= MaxLimit
    <3>1. CASE added = old
      BY <2>1, <3>1, FS_CardinalityType, Numbers
    <3>2. CASE added = old \cup {n}
      <4>1. Cardinality(old) \in Nat
            /\ Cardinality(old \cup {n}) = IF n \in old THEN Cardinality(old)
                                                        ELSE Cardinality(old) + 1
        BY <2>1, FS_CardinalityType, FS_AddElement
      <4> QED
        BY <2>1, <3>2, <4>1, Numbers
    <3> QED
      BY <2>2, <3>1, <3>2
  <2>4. /\ pump'[t][i].active = added
        /\ \A u \in Transfer, j \in Runtime : u # t \/ j # i => pump'[u][j] = pump[u][j]
    BY <1>0, <2>1 DEF EngineInv, Types, Pump
  <2> QED
    BY <2>3, <2>4 DEF Bounded
<1> QED
  BY <1>1, <1>2

----------------------------------------------------------------------------
(* Files that wait.                                                        *)

Due(x) == x.listed /\ x.state = "waiting" /\ ~x.overlooked

\* A file that waits its turn has a runtime, or its first checkpoint is still
\* being written, so that the pump that ends finds it.
WakeInv ==
  /\ \A t \in Transfer : Due(transfer[t]) => transfer[t].adding \/ transfer[t].current # 0
  /\ WaiterHasWaker

\* A step by which no file comes to wait but one just added, and no pump ends.
Waits ==
  /\ \A t \in Transfer : Due(transfer'[t]) =>
       \/ transfer'[t].adding
       \/ /\ Due(transfer[t]) /\ transfer'[t].adding = transfer[t].adding
          /\ transfer'[t].current = transfer[t].current
  /\ \A t \in Transfer, i \in Runtime : Wakes(pump[t][i]) => Wakes(pump'[t][i])

LEMMA WaitsInv == ASSUME WakeInv, Waits PROVE WakeInv'
BY DEF WakeInv, WaiterHasWaker, Waits, Due

\* A step after which a pump runs.
LEMMA RunsWake ==
  ASSUME \E t \in Transfer, i \in Runtime : Running(pump'[t][i]),
         \A t \in Transfer : Due(transfer'[t]) => transfer'[t].adding \/ transfer'[t].current # 0
  PROVE  WakeInv'
BY DEF WakeInv, WaiterHasWaker, Wakes, Running

LEMMA RestartWakes ==
  ASSUME EngineInv, WakeInv, NEW t \in Transfer, Added(t) \/ Resume(t)
  PROVE  WakeInv'
<1>1. Types
  BY DEF EngineInv
<1>2. PICK c \in Runtime, tr \in [Transfer -> Row] : Restarts(t, c, tr)
  BY <1>1, AddedDoes, ResumeDoes
<1>3. WithRuntime(t, c) \in [Transfer -> [Runtime -> Pump]]
  BY <1>1, WithRuntimeDoes
<1>6. /\ Ran(t, c, tr, WithRuntime(t, c), transfer', pump') /\ tr[t].current = c
      /\ \A u \in Transfer : u # t => tr[u] = transfer[u]
  BY <1>2 DEF Restarts
<1>7. /\ \A u \in Transfer : u # t => transfer'[u] = tr[u]
      /\ Same(tr[t], transfer'[t])
      /\ \E u \in Transfer, i \in Runtime : Running(pump'[u][i])
  BY <1>3, <1>6, RunDoes
<1>4. /\ \A u \in Transfer : u # t => transfer'[u] = transfer[u]
      /\ transfer'[t].current = c
      /\ \E u \in Transfer, i \in Runtime : Running(pump'[u][i])
  BY <1>6, <1>7 DEF Same
<1>5. \A u \in Transfer : Due(transfer'[u]) => transfer'[u].adding \/ transfer'[u].current # 0
  BY <1>4, Numbers DEF WakeInv
<1> QED
  BY <1>4, <1>5, RunsWake

\* The end of a run wakes one of those that wait, or finds none.
LEMMA SavedWakes ==
  ASSUME EngineInv, WakeInv, NEW t \in Transfer, NEW i \in Runtime, Saved(t, i)
  PROVE  WakeInv'
<1> DEFINE ended == Ended(t, i)
           saved == IF pump[t][i].cancelled THEN transfer[t].saved ELSE Checkpoint(transfer[t])
           tr == [transfer EXCEPT ![t].saved = saved]
<1>1. Types
  BY DEF EngineInv
<1>2. ended \in [Transfer -> [Runtime -> Pump]]
  BY <1>1, EndedDoes
<1>3. \/ Waiters(t, i) = {} /\ transfer' = tr
      \/ \E u \in Waiters(t, i) : Run(u, tr, ended)
  BY DEF Saved
<1>4. /\ tr \in [Transfer -> Row]
      /\ \A u \in Transfer :
           /\ tr[u].state = transfer[u].state /\ tr[u].listed = transfer[u].listed
           /\ tr[u].current = transfer[u].current
           /\ tr[u].adding = transfer[u].adding /\ tr[u].overlooked = transfer[u].overlooked
  <2>1. saved \in {transfer[t].saved, Checkpoint(transfer[t])}
    OBVIOUS
  <2>2. tr = WithCheckpoint(t, saved)
    BY DEF WithCheckpoint
  <2> HIDE DEF saved, tr
  <2> QED
    BY <2>1, <2>2, CheckpointDoes
<1> HIDE DEF ended, saved, tr
<1>5. CASE Waiters(t, i) = {} /\ transfer' = tr
  <2>1. ASSUME NEW u \in Transfer, Due(transfer'[u]) PROVE transfer'[u].adding
    <3>1. Due(transfer[u]) /\ transfer'[u].adding = transfer[u].adding
      BY <1>4, <1>5, <2>1 DEF Due
    <3>2. u \notin Waiters(t, i)
      BY <1>5
    <3>3. transfer[u].current = 0
      BY <3>1, <3>2 DEF Due, Waiters
    <3> QED
      BY <3>1, <3>3 DEF WakeInv
  <2> QED
    BY <2>1 DEF WakeInv, WaiterHasWaker, Due
<1>6. ASSUME NEW u \in Waiters(t, i), Run(u, tr, ended) PROVE WakeInv'
  <2>1. PICK c \in Runtime : c = tr[u].current
    BY <1>1, <1>4, <1>6 DEF Waiters, Types, Row
  <2>2. u \in Transfer /\ Ran(u, c, tr, ended, transfer', pump')
    BY <1>4, <1>6, <2>1, RunRan DEF Waiters
  <2>3. /\ \A v \in Transfer : v # u => transfer'[v] = tr[v]
        /\ transfer'[u].current = c
        /\ \E v \in Transfer, j \in Runtime : Running(pump'[v][j])
    BY <1>2, <1>4, <2>1, <2>2, RunDoes DEF Same
  <2>4. ASSUME NEW v \in Transfer, Due(transfer'[v])
        PROVE  transfer'[v].adding \/ transfer'[v].current # 0
    <3>1. CASE v = u
      BY <2>3, <3>1, Numbers
    <3>2. CASE v # u
      <4>1. transfer'[v] = tr[v]
        BY <2>3, <3>2
      <4>2. Due(transfer[v])
        BY <1>4, <2>4, <4>1 DEF Due
      <4> QED
        BY <1>4, <4>1, <4>2 DEF WakeInv
    <3> QED
      BY <3>1, <3>2
  <2> QED
    BY <2>3, <2>4, RunsWake
<1> QED
  BY <1>3, <1>5, <1>6

\* Without a last checkpoint it passes over those that wait.
LEMMA SaveFailsWakes ==
  ASSUME EngineInv, WakeInv, NEW t \in Transfer, NEW i \in Runtime, SaveFails(t, i)
  PROVE  WakeInv'
<1>1. \A u \in Transfer :
        /\ Same(transfer[u], transfer'[u]) /\ transfer'[u].state = transfer[u].state
        /\ transfer'[u].overlooked = (transfer[u].overlooked \/ u \in Waiters(t, i))
  BY SaveFailsDoes DEF EngineInv
<1>2. ASSUME NEW u \in Transfer, Due(transfer'[u]) PROVE transfer'[u].adding
  <2>1. u \notin Waiters(t, i) /\ Due(transfer[u])
    BY <1>1, <1>2 DEF Due, Same
  <2>2. transfer[u].current = 0
    BY <2>1 DEF Due, Waiters
  <2> QED
    BY <1>1, <2>1, <2>2 DEF WakeInv, Same
<1> QED
  BY <1>2 DEF WakeInv, WaiterHasWaker, Due

LEMMA UserWaits ==
  ASSUME EngineInv, NEW t \in Transfer,
         \/ Add(t) \/ AddFails(t) \/ ResumeStart(t) \/ ResumeComplete(t) \/ ResumeFails(t)
         \/ Pause(t) \/ CancelStart(t) \/ CancelDone(t) \/ CancelFails(t)
  PROVE  Waits
<1>1. Types /\ transfer[t] \in Row
  BY DEF EngineInv, Types
<1>2. \A u \in Transfer : u # t => transfer'[u] = transfer[u]
  BY <1>1 DEF Types, Add, AddFails, ResumeStart, ResumeComplete, ResumeFails, Pause, CancelStart,
              CancelDone, CancelFails
<1>3. Due(transfer'[t]) =>
        \/ transfer'[t].adding
        \/ /\ Due(transfer[t]) /\ transfer'[t].adding = transfer[t].adding
           /\ transfer'[t].current = transfer[t].current
  <2>1. CASE Add(t)
    BY <1>1, <2>1 DEF Types, Row, Add
  <2>2. CASE AddFails(t)
    BY <1>1, <2>2 DEF Types, Row, Due, AddFails
  <2>3. CASE ResumeStart(t) \/ ResumeFails(t)
    <3>1. PICK n : transfer' = [transfer EXCEPT ![t].resumes = n]
      BY <2>3 DEF ResumeStart, ResumeFails
    <3> QED
      BY <1>1, <3>1 DEF Types, Row, Due
  <2>4. CASE ResumeComplete(t)
    <3>1. transfer'[t].state = "complete"
      BY <1>1, <2>4 DEF Types, Row, ResumeComplete
    <3> QED
      BY <3>1 DEF Due
  <2>5. CASE Pause(t)
    <3>1. transfer'[t].state = "paused"
      BY <1>1, <2>5 DEF Types, Row, Pause
    <3> QED
      BY <3>1 DEF Due
  <2>6. CASE CancelStart(t) \/ CancelFails(t)
    <3>1. PICK c : transfer' = [transfer EXCEPT ![t].cancel = c]
      BY <2>6 DEF CancelStart, CancelFails
    <3> QED
      BY <1>1, <3>1 DEF Types, Row, Due
  <2>7. CASE CancelDone(t)
    <3>1. ~transfer'[t].listed
      BY <1>1, <2>7 DEF Types, Row, CancelDone
    <3> QED
      BY <3>1 DEF Due
  <2> QED
    BY <2>1, <2>2, <2>3, <2>4, <2>5, <2>6, <2>7
<1>4. ASSUME NEW u \in Transfer, NEW i \in Runtime
      PROVE  pump'[u][i].step = pump[u][i].step
  <2>1. CASE UNCHANGED pump
    BY <2>1
  <2>2. ASSUME NEW cancelled \in BOOLEAN, pump' = Told(t, cancelled)
        PROVE  pump'[u][i].step = pump[u][i].step
    <3>1. /\ \A v \in Transfer : v # t => pump'[v] = pump[v]
          /\ \A j \in Runtime : pump'[t][j].step = pump[t][j].step
      BY <1>1, <2>2, ToldDoes
    <3> QED
      BY <3>1
  <2> QED
    BY <2>1, <2>2
       DEF Add, AddFails, ResumeStart, ResumeComplete, ResumeFails, Pause, CancelStart,
           CancelDone, CancelFails
<1> QED
  BY <1>2, <1>3, <1>4 DEF Waits, Wakes

LEMMA PumpWaits ==
  ASSUME EngineInv, NEW t \in Transfer, NEW i \in Runtime,
         \/ Launch(t, i) \/ LoopEnds(t, i) \/ Complete(t, i) \/ CompleteFails(t, i)
         \/ \E n \in Part : PartDone(t, i, n) \/ PartStops(t, i, n) \/ PartGivesUp(t, i, n)
  PROVE  Waits
<1>1. Types /\ transfer[t] \in Row /\ pump[t][i] \in Pump
  BY DEF EngineInv, Types
<1>2. /\ \A u \in Transfer : u # t => transfer'[u] = transfer[u]
      /\ \A u \in Transfer, j \in Runtime : u # t \/ j # i => pump'[u][j] = pump[u][j]
  <2> DEFINE One == \A u \in Transfer, j \in Runtime :
                     u # t \/ j # i => pump'[u][j] = pump[u][j]
             left(n) == pump[t][i].active \ {n}
  <2>1. One
    <3>1. CASE Launch(t, i)
      BY <1>1, <3>1 DEF Types, Pump, Launch
    <3>2. CASE LoopEnds(t, i)
      BY <1>1, <3>2 DEF Types, Pump, LoopEnds
    <3>3. CASE Complete(t, i) \/ CompleteFails(t, i)
      BY <1>1, <3>3 DEF Types, Pump, Complete, CompleteFails
    <3>4. ASSUME NEW n \in Part, PartDone(t, i, n) \/ PartStops(t, i, n) \/ PartGivesUp(t, i, n)
          PROVE  One
      <4>1. CASE PartDone(t, i, n)
        BY <1>1, <4>1 DEF Types, Pump, PartDone
      <4>2. CASE PartStops(t, i, n)
        BY <1>1, <4>2 DEF Types, Pump, PartStops
      <4>3. CASE PartGivesUp(t, i, n)
        <5>1. pump' = [pump EXCEPT ![t][i].active = left(n), ![t][i].error = TRUE,
                                   ![t][i].paused = TRUE]
          BY <4>3 DEF PartGivesUp
        <5> HIDE DEF left
        <5> QED
          BY SMTT(30), <1>1, <5>1 DEF Types, Pump
      <4> QED
        BY <3>4, <4>1, <4>2, <4>3
    <3> HIDE DEF One
    <3> QED
      BY <3>1, <3>2, <3>3, <3>4
  <2>2. \/ UNCHANGED transfer
        \/ \E x : transfer' = [transfer EXCEPT ![t] = x]
    <3>1. CASE Launch(t, i) \/ LoopEnds(t, i) \/ Complete(t, i) \/ CompleteFails(t, i)
      BY <3>1 DEF Launch, LoopEnds, Complete, CompleteFails
    <3>2. ASSUME NEW n \in Part, PartDone(t, i, n)
          PROVE  \E x : transfer' = [transfer EXCEPT ![t] = x]
      <4>1. transfer' = [transfer EXCEPT ![t] = [transfer[t] EXCEPT
                           !.completed = @ \cup {n}, !.saved = Checkpoint(transfer[t])]]
        BY <1>1, <3>2 DEF Types, PartDone
      <4> QED
        BY <4>1
    <3>3. ASSUME NEW n \in Part, PartStored(t, n)
          PROVE  \/ UNCHANGED transfer
                 \/ \E x : transfer' = [transfer EXCEPT ![t] = x]
      BY <3>3 DEF PartStored
    <3> QED
      BY <3>1, <3>2, <3>3 DEF PartStops, PartGivesUp
  <2> QED
    BY <1>1, <2>1, <2>2 DEF Types
<1>3. CASE Launch(t, i)
  <2>1. pump'[t][i].step = pump[t][i].step /\ UNCHANGED transfer
    BY <1>1, <1>3 DEF Types, Pump, Launch
  <2> QED
    BY <1>2, <2>1 DEF Waits, Wakes
<1>4. CASE LoopEnds(t, i)
  <2> DEFINE s == Outcome(t, i)
             q == Past(pump[t][i], IF Outcome(t, i) = "finalizing" /\ ~pump[t][i].cancelled
                                     THEN "completing" ELSE "saving")
  <2>1. transfer' = [transfer EXCEPT ![t].state = s] /\ pump' = [pump EXCEPT ![t][i] = q]
    BY <1>4 DEF LoopEnds
  <2>2. s = transfer[t].state \/ s # "waiting"
    BY DEF Outcome
  <2>3. q.step \in {"completing", "saving"}
    BY DEF Past, NoPump
  <2> HIDE DEF s, q
  <2>4. /\ transfer'[t].state = s /\ transfer'[t].listed = transfer[t].listed
        /\ transfer'[t].overlooked = transfer[t].overlooked
        /\ transfer'[t].adding = transfer[t].adding
        /\ transfer'[t].current = transfer[t].current
        /\ pump'[t][i] = q
    BY <1>1, <2>1 DEF Types, Row
  <2> QED
    BY <1>2, <2>2, <2>3, <2>4 DEF Waits, Wakes, Due
<1>5. CASE Complete(t, i) \/ CompleteFails(t, i)
  <2>1. transfer'[t].state \in {"complete", "failed"} /\ pump'[t][i].step = "saving"
    BY <1>1, <1>5 DEF Types, Row, Pump, Complete, CompleteFails, Failed
  <2> QED
    BY <1>2, <2>1 DEF Waits, Wakes, Due
<1>6. ASSUME NEW n \in Part, PartDone(t, i, n) \/ PartStops(t, i, n) \/ PartGivesUp(t, i, n)
      PROVE  Waits
  <2>1. pump'[t][i].step = pump[t][i].step
    <3> DEFINE left == pump[t][i].active \ {n}
    <3>1. \/ pump' = [pump EXCEPT ![t][i].active = left]
          \/ pump' = [pump EXCEPT ![t][i].active = left, ![t][i].error = TRUE,
                                  ![t][i].paused = TRUE]
      BY <1>6 DEF PartDone, PartStops, PartGivesUp
    <3> HIDE DEF left
    <3>2. CASE pump' = [pump EXCEPT ![t][i].active = left]
      BY <1>1, <3>2 DEF Types, Pump
    <3>3. CASE pump' = [pump EXCEPT ![t][i].active = left, ![t][i].error = TRUE,
                                    ![t][i].paused = TRUE]
      BY SMTT(30), <1>1, <3>3 DEF Types, Pump
    <3> QED
      BY SMTT(30), <3>1, <3>2, <3>3
  <2>3. PICK done, saved : \/ UNCHANGED transfer
                           \/ transfer' = [transfer EXCEPT ![t].completed = done]
                           \/ transfer' = [transfer EXCEPT ![t].completed = done,
                                                           ![t].saved = saved]
    <3>1. CASE PartDone(t, i, n)
      BY <3>1 DEF PartDone
    <3>2. CASE PartStored(t, n)
      BY <3>2 DEF PartStored
    <3> QED
      BY <1>6, <3>1, <3>2 DEF PartStops, PartGivesUp
  <2>2. /\ transfer'[t].state = transfer[t].state /\ transfer'[t].listed = transfer[t].listed
        /\ transfer'[t].overlooked = transfer[t].overlooked
        /\ transfer'[t].adding = transfer[t].adding
        /\ transfer'[t].current = transfer[t].current
    BY <1>1, <2>3 DEF Types, Row
  <2> QED
    BY <1>2, <2>1, <2>2 DEF Waits, Wakes, Due
<1> QED
  BY <1>3, <1>4, <1>5, <1>6

LEMMA WakeNext == EngineInv /\ WakeInv /\ [Next]_vars => WakeInv'
<1> SUFFICES ASSUME EngineInv, WakeInv, [Next]_vars PROVE WakeInv'
  OBVIOUS
<1>1. ASSUME NEW t \in Transfer, Added(t) \/ Resume(t) PROVE WakeInv'
  BY <1>1, RestartWakes
<1>2. ASSUME NEW t \in Transfer,
             \/ Add(t) \/ AddFails(t) \/ ResumeStart(t) \/ ResumeComplete(t) \/ ResumeFails(t)
             \/ Pause(t) \/ CancelStart(t) \/ CancelDone(t) \/ CancelFails(t)
      PROVE  WakeInv'
  BY <1>2, UserWaits, WaitsInv
<1>3. ASSUME NEW t \in Transfer, NEW i \in Runtime, Pumping(t, i) PROVE WakeInv'
  BY <1>3, PumpWaits, WaitsInv, SavedWakes, SaveFailsWakes DEF Pumping
<1>4. CASE Reload
  <2>1. \A t \in Transfer : transfer'[t].state # "waiting"
    BY <1>4, ReloadDoes
  <2> QED
    BY <2>1 DEF WakeInv, WaiterHasWaker, Due
<1>5. CASE UNCHANGED vars
  BY <1>5 DEF vars, WakeInv, WaiterHasWaker
<1> QED
  BY <1>1, <1>2, <1>3, <1>4, <1>5 DEF Next

----------------------------------------------------------------------------
(* Upsets.                                                                 *)

LEMMA CountedNext == upsets \in 0..MaxUpsets /\ [Next]_vars => (upsets \in 0..MaxUpsets)'
<1> SUFFICES ASSUME upsets \in 0..MaxUpsets, [Next]_vars PROVE upsets' \in 0..MaxUpsets
  OBVIOUS
<1>1. ASSUME NEW t \in Transfer,
             \/ Add(t) \/ Added(t) \/ AddFails(t)
             \/ ResumeStart(t) \/ Resume(t) \/ ResumeComplete(t) \/ ResumeFails(t)
             \/ Pause(t) \/ CancelStart(t) \/ CancelDone(t) \/ CancelFails(t)
      PROVE  UNCHANGED upsets \/ Upset
  <2>1. CASE Add(t) \/ ResumeComplete(t) \/ ResumeFails(t) \/ CancelDone(t) \/ CancelFails(t)
    BY <2>1 DEF Add, ResumeComplete, ResumeFails, CancelDone, CancelFails
  <2>2. CASE AddFails(t) \/ ResumeStart(t) \/ Pause(t) \/ CancelStart(t)
    BY <2>2 DEF AddFails, ResumeStart, Pause, CancelStart
  <2>3. CASE Added(t)
    BY <2>3 DEF Added
  <2>4. CASE Resume(t)
    BY <2>4 DEF Resume
  <2> QED
    BY <1>1, <2>1, <2>2, <2>3, <2>4
<1>2. ASSUME NEW t \in Transfer, NEW i \in Runtime, Pumping(t, i)
      PROVE  UNCHANGED upsets \/ Upset
  <2>1. CASE CompleteFails(t, i)
    BY <2>1 DEF CompleteFails, Failure
  <2>2. CASE SaveFails(t, i)
    BY <2>2 DEF SaveFails
  <2>3. ASSUME NEW n \in Part, PartGivesUp(t, i, n) PROVE UNCHANGED upsets \/ Upset
    BY <2>3 DEF PartGivesUp, Failure
  <2> QED
    BY <1>2, <2>1, <2>2, <2>3 DEF Pumping
<1>3. UNCHANGED upsets \/ Upset
  <2>1. CASE Reload
    BY <2>1 DEF Reload
  <2>2. CASE UNCHANGED vars
    BY <2>2 DEF vars
  <2> QED
    BY <1>1, <1>2, <2>1, <2>2 DEF Next
<1> QED
  BY <1>3, Numbers DEF Upset

----------------------------------------------------------------------------
(* The theorems.                                                           *)

\* Files, runtimes and uploads have their types, and no pump ever has more
\* parts in flight than its limit.
THEOREM TypeCorrect == Spec => []TypeOK
<1>1. Init => Bounded
  <2>1. NoPump.active = {} /\ Cardinality({}) = 0
    BY FS_EmptySet DEF NoPump
  <2> SUFFICES ASSUME Init, NEW t \in Transfer, NEW i \in Runtime
               PROVE  Cardinality(pump[t][i].active) <= MaxLimit
    BY DEF Bounded
  <2>2. pump[t][i] = NoPump
    BY DEF Init
  <2>3. 0 <= MaxLimit
    BY Numbers
  <2> QED
    BY <2>1, <2>2, <2>3
<1>2. Init => upsets \in 0..MaxUpsets
  BY Numbers DEF Init
<1>3. EngineInv /\ Bounded /\ upsets \in 0..MaxUpsets => TypeOK
  BY DEF EngineInv, Types, Row, Pump, Kept, Bounded, TypeOK
<1> QED
  BY <1>1, <1>2, <1>3, BoundedNext, CountedNext, EngineInvariant, PTL DEF Spec

\* A pump asks to complete only an upload all of whose parts are stored, and a
\* file is shown as complete only when it is: for any number of files, parts,
\* connections and second pumps.
THEOREM CompletesWhatIsStoredHolds == Spec => []CompletesWhatIsStored
<1>1. EngineInv => CompletesWhatIsStored
  BY DEF EngineInv, Fits, Progress, CompletesWhatIsStored
<1> QED
  BY <1>1, EngineInvariant, PTL

\* A file shown as uploading or finalizing has a pump at work, or is being
\* cancelled: a page never shows a transfer that has silently stopped.
THEOREM ShownHasPumpHolds == Spec => []ShownHasPump
<1>1. EngineInv => ShownHasPump
  BY DEF EngineInv, Fits, Shown, ShownHasPump
<1> QED
  BY <1>1, EngineInvariant, PTL

\* A file that waits its turn has a pump that will look for it, or its first
\* checkpoint is being written, unless a put that failed passed it over: for any
\* number of files that wait, of pumps and of interruptions.
THEOREM WaiterHasWakerHolds == Spec => []WaiterHasWaker
<1>1. Init => WakeInv
  BY DEF Init, WakeInv, WaiterHasWaker, Due
<1>2. WakeInv => WaiterHasWaker
  BY DEF WakeInv
<1> QED
  BY <1>1, <1>2, WakeNext, EngineInvariant, PTL DEF Spec
=============================================================================
