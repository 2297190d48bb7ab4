----------------------------- MODULE StepMachine ----------------------------
(***************************************************************************)
(* Processes that run the procedures of Steps side by side over one world. *)
(* Every call may fail and every process may die between, or in the middle *)
(* of, two calls; a process then goes on with the next job of its list, as *)
(* a user or the daemon would run the next command.                        *)
(***************************************************************************)
EXTENDS Steps, FiniteSets

CONSTANTS
  Procs,      \* the processes
  Code,       \* Code[p][job]: the steps of a job run by process p
  Scenarios,  \* what runs: [jobs: [Procs -> Seq(job)], world: facts, spent: Nat],
              \* spent being the part of MaxFaults it may not use
  MaxFaults   \* bound: failing calls and deaths in a behaviour

ASSUME StepAssumption == MaxFaults \in Nat

VARIABLES
  world,   \* the facts that hold
  ps,      \* [p] jobs left, the job's pc, what it has seen, its undo list,
           \* and <<job, result>> of the job before
  ended,   \* history: <<job, result>> of every job that ended ("ok", "err",
           \* "died"), and <<job, "untidy">> if a clean-up of it failed
  faulty   \* failing calls and deaths so far

stepVars == <<world, ps, ended, faulty>>

Fresh(js, before) ==
  [jobs |-> js, pc |-> 1, seen |-> {}, undo |-> {}, held |-> {}, last |-> before]

StepsInit ==
  \E s \in Scenarios :
    /\ world = s.world
    /\ ps = [p \in Procs |-> Fresh(s.jobs[p], <<"", "">>)]
    /\ ended = {}
    /\ faulty = s.spent

Busy(p) == ps[p].jobs # <<>>

(* The step p is at, of the procedure b it runs.                            *)
Now(p, b) == b[ps[p].pc]

(* A fact is visible to a procedure if it holds or was seen to hold.        *)
Known(p)   == world \cup ps[p].seen
Applies(p, b) == Now(p, b).when \subseteq Known(p) /\ Now(p, b).unless \cap Known(p) = {}

(* The job ends: held facts go with it.                                     *)
EndJob(p, w, result, untidily) ==
  /\ world' = w \ ps[p].held
  /\ ended' = ended \cup {<<Head(ps[p].jobs), r>> : r \in {result} \cup untidily}
  /\ ps' = [ps EXCEPT ![p] = Fresh(Tail(ps[p].jobs), <<Head(ps[p].jobs), result>>)]

(* The next step, or the end of the job.                                    *)
GoOn(p, b, w, state) ==
  IF ps[p].pc = Len(b)
    THEN EndJob(p, w, "ok", {})
    ELSE /\ world' = w
         /\ ps' = [ps EXCEPT ![p] = [state EXCEPT !.pc = @ + 1]]
         /\ UNCHANGED ended

(* The innermost attempt around the step is left, or the job if there is    *)
(* none; an error first undoes what was registered since, and a clean-up    *)
(* that fails in its turn (sloppy) is not noticed.                          *)
Catchers(p, b) == {j \in (ps[p].pc + 1)..Len(b) :
                  b[j].catch # "" /\ b[j].lvl = Now(p, b).lvl - 1}

Undone(p, b) == UNION {u.facts : u \in {v \in ps[p].undo : v.lvl >= Now(p, b).lvl}}

Leave(p, b, w, result, sloppy) ==
  LET left == IF result = "ok" \/ sloppy THEN w ELSE w \ Undone(p, b) IN
  LET untidy == IF sloppy THEN {"untidy"} ELSE {} IN
  IF Now(p, b).lvl = 0
    THEN EndJob(p, left, result, untidy)
    ELSE LET j == CHOOSE i \in Catchers(p, b) : \A k \in Catchers(p, b) : i <= k IN
         /\ world' = left
         /\ ps' = [ps EXCEPT ![p].pc = j,
                     ![p].seen = IF result = "ok" THEN @ ELSE @ \cup {b[j].catch},
                     ![p].undo = {u \in @ : u.lvl < Now(p, b).lvl}]
         /\ ended' = ended \cup {<<Head(ps[p].jobs), r>> : r \in untidy}

(* The step is executed.                                                    *)
StepDone(p, b) ==
  /\ Applies(p, b) /\ Now(p, b).ret = ""
  /\ Now(p, b).wait \cap world = {}
  /\ \E got \in {{}} \cup {{f} : f \in Now(p, b).pick} :
       GoOn(p, b, (world \ Now(p, b).del) \cup Now(p, b).add \cup Now(p, b).hold,
            [ps[p] EXCEPT
               !.seen = @ \cup got \cup {l[2] : l \in {k \in Now(p, b).look : k[1] \in world}},
               !.held = (@ \ Now(p, b).del) \cup Now(p, b).hold,
               !.undo = IF Now(p, b).catch # "" THEN {u \in @ : u.lvl <= Now(p, b).lvl}
                        ELSE IF Now(p, b).undo = {} THEN @
                        ELSE @ \cup {[lvl |-> Now(p, b).lvl, facts |-> Now(p, b).undo]}])
  /\ UNCHANGED faulty

StepSkipped(p, b) ==
  /\ ~Applies(p, b)
  /\ GoOn(p, b, world, ps[p])
  /\ UNCHANGED faulty

StepReturns(p, b) ==
  /\ Applies(p, b) /\ Now(p, b).ret # ""
  /\ \E sloppy \in BOOLEAN :
       /\ sloppy => Now(p, b).ret = "err" /\ Undone(p, b) # {} /\ faulty < MaxFaults
       /\ Leave(p, b, world, Now(p, b).ret, sloppy)
       /\ faulty' = IF sloppy THEN faulty + 1 ELSE faulty

(* An error is ignored, or handled by the innermost attempt or the caller.  *)
StepFails(p, b) ==
  /\ Applies(p, b) /\ Now(p, b).fail # "no" /\ faulty < MaxFaults
  /\ IF Now(p, b).fail = "warn"
       THEN /\ GoOn(p, b, world \cup Now(p, b).part, ps[p])
            /\ faulty' = faulty + 1
       ELSE \E sloppy \in BOOLEAN :
              /\ sloppy => Undone(p, b) # {} /\ faulty + 1 < MaxFaults
              /\ Leave(p, b, world \cup Now(p, b).part, "err", sloppy)
              /\ faulty' = IF sloppy THEN faulty + 2 ELSE faulty + 1

(* The process dies, at or in the middle of its step.                       *)
Dies(p, b) ==
  /\ faulty < MaxFaults
  /\ faulty' = faulty + 1
  /\ \E w \in {world} \cup {world \cup f : f \in IF Applies(p, b) THEN {Now(p, b).part} ELSE {}} :
       EndJob(p, w, "died", {})

StepsNext ==
  \E p \in Procs :
    Busy(p) /\ \E b \in {Code[p][Head(ps[p].jobs)]} :
    StepDone(p, b) \/ StepSkipped(p, b) \/ StepReturns(p, b) \/ StepFails(p, b) \/ Dies(p, b)

died(job)   == <<job, "died">> \in ended
untidy(job) == <<job, "untidy">> \in ended

(* No process is in the middle of a job.                                    *)
AtRest == \A p \in Procs : ps[p].pc = 1

(* More than one process has done something.                                *)
Overlap == Cardinality({p \in Procs : ps[p].last[1] # "" \/ ps[p].pc > 1}) > 1

(* This step of p ends its job with that result.                            *)
Ends(p, job, result) ==
  /\ Busy(p) /\ Head(ps[p].jobs) = job
  /\ Len(ps'[p].jobs) < Len(ps[p].jobs) /\ ps'[p].last = <<job, result>>

(* A job ends with this step.                                               *)
JobEnds == \E p \in Procs : ps'[p].jobs # ps[p].jobs
=============================================================================
