-------------------------------- MODULE Steps -------------------------------
(***************************************************************************)
(* A sequential procedure of the program as a sequence of steps over a     *)
(* world of facts: files, records, mounts, packages, flags.  A step is one *)
(* call that changes or reads the world; its fields say when it is         *)
(* executed, what it changes, and what happens when it fails.  StepMachine *)
(* runs such procedures.                                                   *)
(***************************************************************************)
EXTENDS Naturals, Sequences

(* The step that does nothing.                                              *)
(*   when, unless  executed only if all, and none, of these facts hold in   *)
(*                 the world or among the facts the procedure has seen      *)
(*   wait          blocks while one of these holds                          *)
(*   look          <<fact, tag>> pairs: remember the tag if the fact holds  *)
(*   pick          remember at most one of these (an answer, an outcome)    *)
(*   del, add      the effect; hold is an effect that ends with the process *)
(*   fail          "no", "return" or "warn": what an error does             *)
(*   part          what a failed or cut-off execution may leave             *)
(*   undo          removed when the procedure fails later                   *)
(*   ret           "", or the result with which the procedure returns here  *)
(*   lvl, catch    the nesting of attempts; a catch ends one and remembers  *)
(*                 its tag if it was left by an error                       *)
Step == [when |-> {}, unless |-> {}, wait |-> {}, look |-> {}, pick |-> {},
         del |-> {}, add |-> {}, hold |-> {}, fail |-> "no", part |-> {},
         undo |-> {}, ret |-> "", lvl |-> 0, catch |-> ""]

(* An effect that cannot fail, that ends the procedure when it fails, and   *)
(* whose failure is logged or ignored.                                      *)
Do(adds)       == [Step EXCEPT !.add = adds]
Try(adds)      == [Step EXCEPT !.add = adds, !.fail = "return"]
Best(adds)     == [Step EXCEPT !.add = adds, !.fail = "warn"]
Clear(dels)    == [Step EXCEPT !.del = dels]
TryClear(dels) == [Step EXCEPT !.del = dels, !.fail = "return"]
BestClear(dels) == [Step EXCEPT !.del = dels, !.fail = "warn"]

(* One fact replaces others in one call: a rename, an overwriting save.     *)
Swap(dels, adds)    == [Step EXCEPT !.del = dels, !.add = adds]
TrySwap(dels, adds) == [Step EXCEPT !.del = dels, !.add = adds, !.fail = "return"]
BestSwap(dels, adds) == [Step EXCEPT !.del = dels, !.add = adds, !.fail = "warn"]

(* A call that changes nothing here and may fail.                           *)
Check == [Step EXCEPT !.fail = "return"]

Look(fact, tag) == [Step EXCEPT !.look = {<<fact, tag>>}]
Pick(facts) == [Step EXCEPT !.pick = facts]

(* Early returns.                                                           *)
Stop(facts)    == [Step EXCEPT !.when = facts, !.ret = "ok"]
Refuse(facts)  == [Step EXCEPT !.when = facts, !.ret = "err"]
Require(fact)  == [Step EXCEPT !.unless = {fact}, !.ret = "err"]
StopUnless(fact) == [Step EXCEPT !.unless = {fact}, !.ret = "ok"]

(* A lock: taken when free, released when the process ends.                 *)
Lock(l)   == [Step EXCEPT !.wait = {l}, !.hold = {l}]
Unlock(l) == [Step EXCEPT !.del = {l}]

When(facts, s)   == [s EXCEPT !.when = @ \cup facts]
Unless(facts, s) == [s EXCEPT !.unless = @ \cup facts]
Part(facts, s)   == [s EXCEPT !.part = facts]
Undo(facts, s)   == [s EXCEPT !.undo = facts]

(* A command of a guest's first boot: cloud-init passes over a failure and  *)
(* never runs the command again; stuck remembers that one failed.           *)
cmd(adds)   == Part({"stuck"}, Best(adds))
uncmd(dels) == Part({"stuck"}, BestClear(dels))

(* A condition on a whole block.                                            *)
WhenAll(facts, steps)   == [i \in DOMAIN steps |-> When(facts, steps[i])]
UnlessAll(facts, steps) == [i \in DOMAIN steps |-> Unless(facts, steps[i])]

(* A call whose error the caller handles: an error inside ends the block,   *)
(* undoes what the block registered, and is remembered as tag.              *)
Attempt(tag, steps) ==
  Append([i \in DOMAIN steps |-> [steps[i] EXCEPT !.lvl = @ + 1]],
         [Step EXCEPT !.catch = tag])
=============================================================================
