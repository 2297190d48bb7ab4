------------------------------ MODULE Screens -------------------------------
(***************************************************************************)
(* The terminal interface of the bare `vee` command: one program with a    *)
(* list, a create form and a monitor, of which one is active.  Update      *)
(* handles one message at a time and returns commands; a command runs in a *)
(* goroutine of its own and ends in a message, so that commands finish,    *)
(* and messages arrive, in any order, and meet whatever screen is active   *)
(* by then.  `fly` holds both: what is still to be executed and what is    *)
(* still to be delivered.  The contents of the form are in Forms.  The     *)
(* records change by this program's own commands, of which several may be  *)
(* under way.                                                              *)
(***************************************************************************)
EXTENDS Integers, Sequences, FiniteSets, Bags

CONSTANTS
  TermOrder,  \* the names of VMs, in the order in which List returns them
  MaxFlight,  \* bound: commands and messages under way when a key adds to them
  MaxPolls    \* bound: connections of the monitor in a behaviour

TermVMs == {TermOrder[i] : i \in DOMAIN TermOrder}

VARIABLES
  trec,   \* [VM] "none", "stopped" or "running": the records
  scr,    \* the active screen, "quit", or "panic"
  lst,    \* listModel: rows as of the last refresh, cursor, and the VM whose
          \* deletion awaits an answer
  frm,    \* createModel: "edit", "confirm" or "submitting"
  mon,    \* monitorModel: the VM it is about and its poller, 0 if none yet
  fly,    \* the bag of commands and messages under way
  polls   \* pollers: made so far, open ones, and (history) those dropped

screenVars == <<trec, scr, lst, frm, mon, fly, polls>>

item(k) == [k |-> k, vm |-> "", rows |-> <<>>, p |-> 0]
onVM(k, v) == [item(k) EXCEPT !.vm = v]
onPoll(k, p) == [item(k) EXCEPT !.p = p]
rowsMsg(r) == [item("rows") EXCEPT !.rows = r]
goto(to) == item("go." \o to)

inFlight(x) == BagIn(x, fly)
roomFor(n) == BagCardinality(fly) + n <= MaxFlight
launch(xs) == roomFor(2) /\ fly' = fly (+) SetToBag(xs)
depart(x) == roomFor(1) /\ fly' = fly (+) SetToBag({x})
replace(x, xs) == fly' = (fly (-) SetToBag({x})) (+) SetToBag(xs)

newListModel == [rows |-> <<>>, cursor |-> 0, ask |-> ""]
newMonitorModel(v) == [vm |-> v, p |-> 0]
listInit == {item("list"), item("tick")}

ScreensInit ==
  /\ trec \in [TermVMs -> {"stopped", "running"}]
  /\ scr \in {"list", "create"}                          \* Run, RunCreate
  /\ fly = SetToBag(listInit)                             \* app.Init, in both
  /\ lst = newListModel /\ frm = "edit" /\ mon = newMonitorModel("")
  /\ polls = [made |-> 0, open |-> {}, lost |-> {}]

-----------------------------------------------------------------------------
(* Commands.                                                                *)

(* List at the moment the command runs.                                     *)
present == SelectSeq(TermOrder, LAMBDA v : trec[v] # "none")
theRows == [i \in DOMAIN present |-> [vm |-> present[i], run |-> trec[present[i]] = "running"]]

doRefresh ==
  /\ inFlight(item("list"))
  /\ \/ replace(item("list"), {rowsMsg(theRows)})
     \/ replace(item("list"), {item("listErr")})
  /\ UNCHANGED <<trec, scr, lst, frm, mon, polls>>

(* A start or stop that succeeds answers with refreshMsg(nil), which is an  *)
(* empty list.                                                              *)
doAct(k, from, to) ==
  \E v \in TermVMs :
    /\ inFlight(onVM(k, v))
    /\ \/ /\ trec[v] = from /\ trec' = [trec EXCEPT ![v] = to]
          /\ replace(onVM(k, v), {rowsMsg(<<>>)})
       \/ replace(onVM(k, v), {item("actionErr")}) /\ UNCHANGED trec
  /\ UNCHANGED <<scr, lst, frm, mon, polls>>

doStart == doAct("start", "stopped", "running")
doStop  == doAct("stop", "running", "stopped")

doDelete ==
  \E v \in TermVMs :
    /\ inFlight(onVM("delete", v))
    /\ \/ /\ trec[v] = "stopped" /\ trec' = [trec EXCEPT ![v] = "none"]
          /\ replace(onVM("delete", v), {})
       \/ replace(onVM("delete", v), {item("actionErr")}) /\ UNCHANGED trec
    /\ UNCHANGED <<scr, lst, frm, mon, polls>>

doSubmit ==
  /\ inFlight(item("create"))
  /\ \/ \E v \in TermVMs : /\ trec[v] = "none" /\ trec' = [trec EXCEPT ![v] = "stopped"]
                           /\ replace(item("create"), {item("created")})
     \/ replace(item("create"), {item("createErr")}) /\ UNCHANGED trec
  /\ UNCHANGED <<scr, lst, frm, mon, polls>>

(* NewPoller connects, or fails; the poller then runs until it is closed.   *)
newPoller ==
  /\ \E v \in TermVMs :
       /\ inFlight(onVM("poll", v))
       /\ \/ /\ trec[v] = "running" /\ polls.made < MaxPolls
             /\ polls' = [polls EXCEPT !.made = @ + 1, !.open = @ \cup {polls.made + 1}]
             /\ replace(onVM("poll", v), {onPoll("ready", polls.made + 1)})
          \/ replace(onVM("poll", v), {item("monErr")}) /\ UNCHANGED polls
  /\ UNCHANGED <<trec, scr, lst, frm, mon>>

(* Statistics, or, once the channel is closed and drained, a function in    *)
(* the place of a message, which no screen handles.                         *)
monWaitStats ==
  /\ \E p \in 1..MaxPolls :
       /\ inFlight(onPoll("wait", p))
       /\ \/ replace(onPoll("wait", p), {onPoll("stats", p)})
          \/ p \notin polls.open /\ replace(onPoll("wait", p), {})
  /\ UNCHANGED <<trec, scr, lst, frm, mon, polls>>

-----------------------------------------------------------------------------
(* The list.                                                                *)

cursorPast(c, rows) == IF c >= Len(rows) /\ c > 0 THEN Len(rows) - 1 ELSE c

(* selected: nothing, a row, or an index below the list, which panics.      *)
isSelected == lst.cursor < Len(lst.rows) /\ lst.cursor >= 0
selectPanics == lst.cursor < 0 /\ lst.rows # <<>>
selected == lst.rows[lst.cursor + 1]

listConfirm ==
  /\ lst.ask # ""
  /\ lst' = [lst EXCEPT !.ask = ""]
  /\ \/ launch({onVM("delete", lst.ask), item("list")})
     \/ UNCHANGED fly
  /\ UNCHANGED <<trec, scr, frm, mon, polls>>

listMove ==
  /\ lst.ask = ""
  /\ \/ lst.cursor > 0 /\ lst' = [lst EXCEPT !.cursor = @ - 1]
     \/ lst.cursor < Len(lst.rows) - 1 /\ lst' = [lst EXCEPT !.cursor = @ + 1]
  /\ UNCHANGED <<trec, scr, frm, mon, fly, polls>>

listAct ==
  /\ lst.ask = "" /\ isSelected
  /\ \/ ~selected.run /\ launch({onVM("start", selected.vm)}) /\ UNCHANGED lst
     \/ selected.run /\ launch({onVM("stop", selected.vm)}) /\ UNCHANGED lst
     \/ selected.run /\ depart(onVM("go.monitor", selected.vm)) /\ UNCHANGED lst
     \/ ~selected.run /\ lst' = [lst EXCEPT !.ask = selected.vm] /\ UNCHANGED fly
  /\ UNCHANGED <<trec, scr, frm, mon, polls>>

listOther ==
  /\ lst.ask = ""
  /\ \/ depart(goto("create")) /\ UNCHANGED scr
     \/ launch({item("list")}) /\ UNCHANGED scr
     \/ scr' = "quit" /\ UNCHANGED fly
     \/ selectPanics /\ scr' = "panic" /\ UNCHANGED fly
  /\ UNCHANGED <<trec, lst, frm, mon, polls>>

listKey == scr = "list" /\ ((roomFor(2) /\ (listConfirm \/ listMove \/ listOther)) \/ listAct)

(* What listModel.Update makes of a message: the model and more commands.   *)
refreshed(r) == [lst EXCEPT !.rows = r, !.cursor = cursorPast(lst.cursor, r)]
listMsg(x) ==
  /\ CASE x.k = "rows" -> lst' = refreshed(x.rows) /\ replace(x, {})
       [] x.k = "tick" -> roomFor(1) /\ UNCHANGED lst /\ replace(x, listInit)
       [] OTHER        -> UNCHANGED lst /\ replace(x, {})
  /\ UNCHANGED <<scr, frm, mon, polls>>

-----------------------------------------------------------------------------
(* The form, as far as the program goes.                                    *)

createKey ==
  /\ scr = "create"
  /\ \/ frm = "edit" /\ depart(goto("list")) /\ UNCHANGED frm
     \/ frm = "edit" /\ frm' = "confirm" /\ UNCHANGED fly
     \/ frm = "confirm" /\ frm' = "submitting" /\ launch({item("create")})
     \/ frm = "confirm" /\ frm' = "edit" /\ UNCHANGED fly
  /\ UNCHANGED <<trec, scr, lst, mon, polls>>

createMsg(x) ==
  /\ CASE frm # "confirm" /\ x.k = "createErr" -> replace(x, {}) /\ frm' = "edit"
       [] frm # "confirm" /\ x.k = "created"   -> replace(x, {goto("list")}) /\ UNCHANGED frm
       [] OTHER                                 -> replace(x, {}) /\ UNCHANGED frm
  /\ UNCHANGED <<scr, lst, mon, polls>>

-----------------------------------------------------------------------------
(* The monitor.                                                             *)

closed == [polls EXCEPT !.open = @ \ {mon.p}]

(* The switch it asks for remembers (history) which poller was closed.      *)
monKey ==
  /\ scr = "monitor"
  /\ polls' = closed
  /\ depart(onPoll("go.list", mon.p))
  /\ UNCHANGED <<trec, scr, lst, frm, mon>>

(* A poller that replaces another, or meets another screen, leaves one that *)
(* nothing closes.                                                          *)
losing(ps) == [polls EXCEPT !.lost = @ \cup (ps \cap polls.open)]

monMsg(x) ==
  /\ CASE x.k = "ready" ->
            /\ roomFor(1) /\ mon' = [mon EXCEPT !.p = x.p] /\ polls' = losing({mon.p})
            /\ replace(x, {onPoll("wait", x.p), item("montick")}) /\ UNCHANGED scr
       [] x.k = "stats" /\ mon.p = 0 ->
            scr' = "panic" /\ replace(x, {}) /\ UNCHANGED <<mon, polls>>
       [] x.k = "stats" /\ mon.p # 0 ->
            replace(x, {onPoll("wait", mon.p)}) /\ UNCHANGED <<scr, mon, polls>>
       [] x.k = "montick" -> replace(x, {x}) /\ UNCHANGED <<scr, mon, polls>>
       [] OTHER -> replace(x, {}) /\ UNCHANGED <<scr, mon, polls>>
  /\ UNCHANGED <<lst, frm>>

-----------------------------------------------------------------------------
(* app.Update: a switch of screens makes its model anew, so that what the   *)
(* one left behind held is forgotten; everything else goes to the active    *)
(* screen.  A monitor that is left by a switch asked for elsewhere, or      *)
(* before its poller was there, leaves the poller open.                     *)

leaving(x) == IF scr = "monitor" /\ x.p # mon.p THEN losing({mon.p}) ELSE polls

switchTo(to, x, v, xs) ==
  /\ x.k = "go." \o to
  /\ scr' = to /\ replace(x, xs) /\ polls' = leaving(x)
  /\ lst' = newListModel /\ frm' = "edit" /\ mon' = newMonitorModel(v)

(* Mutant: the list comes back without its commands.                        *)
switchListQuiet(x) == switchTo("list", x, "", {})

switchList(x) == switchTo("list", x, "", listInit)

switchCreate(x) == switchTo("create", x, "", {})

switchMonitor(x) == switchTo("monitor", x, x.vm, {onVM("poll", x.vm)})

messages == {"rows", "listErr", "tick", "actionErr", "created", "createErr", "ready",
             "monErr", "stats", "montick"}

Update ==
  /\ \E x \in BagToSet(fly) :
       /\ scr \in {"list", "create", "monitor"}
       /\ \/ switchList(x) \/ switchCreate(x) \/ switchMonitor(x)
          \/ x.k \in messages /\ scr = "list" /\ x.k # "ready" /\ listMsg(x)
          \/ x.k \in messages /\ scr = "create" /\ x.k # "ready" /\ createMsg(x)
          \/ x.k \in messages /\ scr = "monitor" /\ monMsg(x)
          \/ /\ x.k = "ready" /\ scr # "monitor" /\ replace(x, {}) /\ polls' = losing({x.p})
             /\ UNCHANGED <<scr, lst, frm, mon>>
  /\ UNCHANGED trec

Commands == doRefresh \/ doStart \/ doStop \/ doDelete \/ doSubmit \/ newPoller \/ monWaitStats

ScreensNext ==
  \/ scr \in {"list", "create", "monitor"} /\ Commands
  \/ listKey \/ createKey \/ monKey \/ Update

-----------------------------------------------------------------------------
(* Properties.                                                              *)

(* While the list is shown a tick is on its way, so that the list goes on   *)
(* being refreshed: ticks that met another screen are gone, and each return *)
(* to the list starts the chain again.                                      *)
ListKeepsTicking == scr = "list" => inFlight(item("tick"))

(* Leaving the monitor by esc closes the connection it holds, so that with  *)
(* any number of visits every open connection is the shown monitor's, is on *)
(* its way to it, or is one of those that nothing closes (lost): it became  *)
(* ready when its monitor had been left, was replaced by a later one, or    *)
(* its monitor was left by a switch that had been asked for before.         *)
PollerIsHeld ==
  scr \in {"list", "create", "monitor"} =>
    \A p \in polls.open : \/ scr = "monitor" /\ mon.p = p
                          \/ inFlight(onPoll("ready", p))
                          \/ p \in polls.lost

(* The screens keep up with the program: the list is refreshed as long as   *)
(* it is shown, and esc in the monitor closes the connection it has.        *)
ScreensKeepUp == ListKeepsTicking /\ PollerIsHeld

=============================================================================
