------------------------------- MODULE Forms --------------------------------
(***************************************************************************)
(* The create form of the terminal interface: the flags it is filled in    *)
(* from, the keys that change it, what it draws and what it submits.  How  *)
(* it fits in the program is in Screens; other forms are in Editors.       *)
(*                                                                         *)
(* A text is "", what it was, or what the user made of it ("typed", and    *)
(* "junk" where a number is expected and none can be read).                *)
(***************************************************************************)
EXTENDS Integers, Sequences, FiniteSets, FiniteSetsExt

CONSTANTS
  FormTemplates,  \* allTemplateNames
  FormAware,      \* those that take a distribution
  FormDistros,    \* sequence of distributions
  FormVersions,   \* [distribution] the sequence of its versions
  FormHosts,      \* [devs: sequence of unmounted devices, arm, mac: BOOLEAN]
  MaxGiven        \* bound: flags given (two at most), plus edits made

VARIABLES
  fhost,   \* the host
  given,   \* flags on the command line: option |-> value
  form,    \* createModel
  edits    \* changes made by the user so far

formVars == <<fhost, given, form, edits>>

FieldOrder == <<"Name", "Template", "Distro", "DistroVersion", "Memory", "CPUs", "DiskMode",
                "DiskSize", "DiskDev", "AdvancedToggle", "NICMode", "NICBridge", "Hostname",
                "Headless", "UEFI", "Nested", "GPUMode", "GPUPCI", "GPUVendor", "AntiDetect",
                "VirtiofsDir", "VirtiofsTag", "DataDisks", "DataDiskBoot", "SSHKeyFile", "User",
                "Password", "Create">>
Advanced == {FieldOrder[i] : i \in 11..27}
TextFields == {"Name", "Memory", "CPUs", "DiskSize", "NICBridge", "Hostname", "GPUPCI",
               "VirtiofsDir", "VirtiofsTag", "SSHKeyFile", "User", "Password"}
Toggles == {"Headless", "UEFI", "Nested", "AntiDetect", "DataDiskBoot"}
Selectors == {"Template", "Distro", "DistroVersion", "DiskMode", "DiskDev", "NICMode",
              "GPUMode", "GPUVendor", "DataDisks"}
Options == (TextFields \cup Toggles \cup Selectors) \ {"DiskMode"}

diskModeNames  == <<"new", "passthrough", "none">>
nicModeNames   == <<"user", "bridge">>
gpuModeNames   == <<"none", "virtio", "passthrough">>
gpuVendorNames == <<"amd", "nvidia", "virtio">>

newCreateModel ==
  [at |-> "Name", adv |-> FALSE, noAuto |-> FALSE, on |-> {}, dlg |-> "none",
   txt |-> [f \in TextFields |-> CASE f = "Memory" -> "2G" [] f = "CPUs" -> "2"
                                   [] f = "DiskSize" -> "20G" [] f = "VirtiofsTag" -> "share"
                                   [] f \in {"User", "Password"} -> "vee" [] OTHER -> ""],
   sel |-> [f \in Selectors |-> IF f = "DiskMode" THEN 2 ELSE 0]]

(* macOS guests need Apple Silicon.                                         *)
templatesForHost ==
  IF fhost.mac /\ fhost.arm THEN FormTemplates
  ELSE SelectSeq(FormTemplates, LAMBDA t : t # "macos")

(* The choices of a selector, in order; a data disk has "none" before them. *)
selectedDistro(m) == FormDistros[m.sel["Distro"] + 1]
choices(m, f) ==
  CASE f = "Template"      -> templatesForHost
    [] f = "Distro"        -> FormDistros
    [] f = "DistroVersion" -> FormVersions[selectedDistro(m)]
    [] f = "DiskMode"      -> diskModeNames
    [] f = "DiskDev"       -> fhost.devs
    [] f = "NICMode"       -> nicModeNames
    [] f = "GPUMode"       -> gpuModeNames
    [] f = "GPUVendor"     -> gpuVendorNames
    [] f = "DataDisks"     -> <<"none">> \o fhost.devs

(* An index past the versions of another distribution means the first one.  *)
chosenOf(m, f) ==
  LET cs == choices(m, f) IN
  CASE m.sel[f] < Len(cs) -> cs[m.sel[f] + 1]
    [] cs # <<>> /\ m.sel[f] >= Len(cs) -> cs[1]
    [] cs = <<>> -> IF f = "DistroVersion" THEN "latest" ELSE ""
isDistroAware(m) == chosenOf(m, "Template") \in FormAware

(* What a field shows.                                                      *)
shownValue(m, f) ==
  CASE f \in TextFields -> IF f = "NICBridge" /\ m.txt[f] = "" /\ chosenOf(m, "NICMode") = "bridge"
                            THEN "br0" ELSE m.txt[f]
    [] f \in Toggles    -> IF f \in m.on THEN "on" ELSE "off"
    [] f \in Selectors  -> chosenOf(m, f)

-----------------------------------------------------------------------------
(* Flags into the form.  A flag that is given shows up in its field, and    *)
(* opens the advanced section if the field is there.                        *)

Quiet == {"Name", "Template", "Memory", "CPUs", "Distro", "DistroVersion", "DiskSize",
          "VirtiofsTag", "User", "Password"}

setOf(q) == {q[k] : k \in DOMAIN q}
indexOr(cs, v, i) == IF \E k \in DOMAIN cs : cs[k] = v
                     THEN Min({k \in DOMAIN cs : cs[k] = v}) - 1 ELSE i

(* A data disk only opens the section; a boot disk is looked up among the   *)
(* devices.  vee create itself never comes here with either.                *)
applyPrefill(m, o) ==
  LET has(f) == f \in DOMAIN o
      boots  == has("DataDiskBoot") /\ \E k \in DOMAIN fhost.devs : fhost.devs[k] = o["DataDiskBoot"]
      known(f) == f \in {"NICMode", "GPUMode", "GPUVendor"} => \E k \in DOMAIN choices(m, f) : choices(m, f)[k] = o[f]
      m1 == [m EXCEPT
               !.txt = [f \in TextFields |->
                          IF has("NoAuto") /\ f \in {"User", "Password"} THEN ""
                          ELSE IF has(f) THEN o[f] ELSE m.txt[f]],
               !.on = {f \in Toggles : IF f = "DataDiskBoot" THEN boots ELSE has(f) /\ o[f] = "on"},
               !.noAuto = has("NoAuto"),
               !.adv = \E f \in Advanced \ Quiet : has(f) /\ known(f),
               !.sel = [f \in Selectors |->
                          CASE f = "DiskMode" -> IF has("DiskSize") THEN 0 ELSE m.sel[f]
                            [] f = "DataDisks" -> IF boots THEN indexOr(fhost.devs, o["DataDiskBoot"], 0) + 1 ELSE 0
                            [] f = "DistroVersion" -> m.sel[f]
                            [] OTHER -> IF has(f) THEN indexOr(choices(m, f), o[f], m.sel[f]) ELSE m.sel[f]]]
  IN [m1 EXCEPT !.sel["DistroVersion"] =
        IF has("DistroVersion") THEN indexOr(choices(m1, "DistroVersion"), o["DistroVersion"], @) ELSE @]

-----------------------------------------------------------------------------
(* The form into options.                                                   *)

parseInt(t) == IF t = "junk" THEN "" ELSE t

(* The fields of the advanced section count only while it is open.          *)
advancedOpt(m, f) ==
  CASE f = "GPUMode"   -> IF chosenOf(m, f) = "none" THEN "" ELSE chosenOf(m, f)
    [] f = "GPUVendor" -> IF chosenOf(m, "GPUMode") = "virtio" THEN chosenOf(m, f) ELSE ""
    [] f = "DataDisks" -> IF m.sel[f] > 0 THEN fhost.devs[m.sel[f]] ELSE ""
    [] f = "DataDiskBoot" -> IF m.sel["DataDisks"] > 0 /\ f \in m.on THEN "on" ELSE ""
    [] f \in Toggles \ {"DataDiskBoot"} -> IF f \in m.on THEN "on" ELSE ""
    [] OTHER -> shownValue(m, f)

toBuildOpts(m) ==
  [f \in Options |->
     CASE f \in {"Name", "Template", "Memory", "DistroVersion"} -> shownValue(m, f)
       [] f = "CPUs"   -> parseInt(m.txt[f])
       [] f = "Distro" -> IF isDistroAware(m) THEN selectedDistro(m) ELSE ""
       [] f = "DiskSize" -> IF chosenOf(m, "DiskMode") = "new" THEN m.txt[f] ELSE ""
       [] f = "DiskDev"  -> IF chosenOf(m, "DiskMode") = "passthrough" THEN chosenOf(m, f) ELSE ""
       [] f \in {"User", "Password"} -> IF m.noAuto THEN "" ELSE m.txt[f]
       [] OTHER -> IF m.adv THEN advancedOpt(m, f) ELSE ""]

-----------------------------------------------------------------------------
(* The keys.                                                                *)

(* Which fields Tab reaches.                                                *)
fieldVisible(m, f) ==
  CASE f = "Template" -> ~m.noAuto
    [] f \in {"Distro", "DistroVersion"} -> isDistroAware(m) /\ ~m.noAuto
    [] f = "DiskSize"     -> chosenOf(m, "DiskMode") = "new"
    [] f = "DiskDev"      -> chosenOf(m, "DiskMode") = "passthrough"
    [] f = "NICBridge"    -> m.adv /\ chosenOf(m, "NICMode") = "bridge"
    [] f = "Nested"       -> m.adv /\ fhost.arm
    [] f \in {"GPUPCI", "AntiDetect"} -> m.adv /\ chosenOf(m, "GPUMode") = "passthrough"
    [] f = "GPUVendor"    -> m.adv /\ chosenOf(m, "GPUMode") = "virtio"
    [] f = "DataDiskBoot" -> m.adv /\ m.sel["DataDisks"] > 0
    [] f \in {"User", "Password"} -> ~m.noAuto
    [] OTHER -> f \in Advanced \cup {"Create"} => m.adv

(* Which fields View draws.                                                 *)
rendered(m, f) ==
  CASE f = "Create" -> TRUE
    [] f \in {"User", "Password"} -> m.adv /\ ~m.noAuto
    [] OTHER -> fieldVisible(m, f)

(* nextField: Tab and Shift-Tab go round these, over those in between.      *)
tabStops(m) == {f \in setOf(FieldOrder) : fieldVisible(m, f)}

clampIdx(i, max) == IF max = 0 \/ i < 0 THEN 0 ELSE IF i >= max THEN max - 1 ELSE i

adjustSelector(m, d) ==
  LET f == m.at
      i == clampIdx(m.sel[f] + d, Len(choices(m, f)))
  IN CASE f = "Template"  -> [m EXCEPT !.sel[f] = i, !.sel["Distro"] = 0, !.sel["DistroVersion"] = 0]
       [] f = "Distro"    -> [m EXCEPT !.sel[f] = i, !.sel["DistroVersion"] = 0]
       [] f = "DataDisks" -> [m EXCEPT !.sel[f] = i, !.on = IF i = 0 THEN @ \ {"DataDiskBoot"} ELSE @]
       [] OTHER           -> [m EXCEPT !.sel[f] = i]

(* appendChar and removeChar.                                               *)
typings(m) ==
  LET t == m.txt[m.at] IN
  {"typed"} \cup (IF m.at = "CPUs" THEN {"junk"} ELSE {}) \cup (IF t # "" THEN {""} ELSE {})

edit(m) == /\ edits + Cardinality(DOMAIN given \ {"Name"}) < MaxGiven
           /\ edits' = edits + 1 /\ form' = m

(* The user moves on to a field and changes it.                             *)
changeAt(m) ==
  \/ /\ m.at \in TextFields
     /\ \E t \in typings(m) : t # m.txt[m.at] /\ edit([m EXCEPT !.txt[m.at] = t])
  \/ /\ m.at \in Toggles
     /\ edit([m EXCEPT !.on = IF m.at \in @ THEN @ \ {m.at} ELSE @ \cup {m.at}])
  \/ /\ m.at \in Selectors
     /\ \E d \in {1, -1} : adjustSelector(m, d) # m /\ edit(adjustSelector(m, d))
  \/ /\ m.at = "AdvancedToggle"
     /\ edit([m EXCEPT !.adv = ~@])

createChange ==
  /\ form.dlg = "none"
  /\ \E f \in tabStops(form) : changeAt([form EXCEPT !.at = f])

(* enter, C, and the two overlays: the directory browser and the question.  *)
createDialog ==
  /\ \/ /\ form.dlg = "none" /\ form' = [form EXCEPT !.dlg = "confirm"] /\ UNCHANGED edits
     \/ /\ form.dlg = "none" /\ "VirtiofsDir" \in tabStops(form)
        /\ form' = [form EXCEPT !.at = "VirtiofsDir", !.dlg = "dir"] /\ UNCHANGED edits
     \/ /\ form.dlg = "dir" /\ edit([form EXCEPT !.txt["VirtiofsDir"] = "typed", !.dlg = "none"])
     \/ /\ form.dlg \in {"dir", "confirm"}
        /\ form' = [form EXCEPT !.dlg = "none"] /\ UNCHANGED edits
     \/ /\ form.dlg = "confirm" /\ form' = [form EXCEPT !.dlg = "sent"] /\ UNCHANGED edits

(* doSubmit refuses two templates, Build and Create may fail; a failure     *)
(* reopens the form as it was.                                              *)
createDone ==
  /\ form.dlg = "sent"
  /\ form' = [form EXCEPT !.dlg = "none"] \/ (chosenOf(form, "Template") \notin {"torrent", "macos"}
                                             /\ form' = [form EXCEPT !.dlg = "made"])
  /\ UNCHANGED edits

(* The command line of vee create.  The form is not reached with --template, *)
(* --data-disk or --boot-disk, nor with --nested on a host whose guests are  *)
(* not arm64; NoField stands for the flags that no field mirrors (--vsock,   *)
(* --ssh-port, --gpu-venus and others).                                     *)
NoField == "NoField"
flagValues(f) ==
  CASE f \in {"Nested", "NoAuto", NoField} -> {"on"}
    [] f \in {"Headless", "UEFI", "AntiDetect"} -> {"on", "off"}
    [] f = "DistroVersion" -> UNION {setOf(FormVersions[d]) : d \in DOMAIN FormVersions}
    [] f \in Selectors \ {"DistroVersion"} -> setOf(choices(newCreateModel, f)) \cup {"unknown"}
    [] OTHER -> {"flag"}

formFlags == ((Options \ {"Name", "Template", "DiskDev", "DataDisks", "DataDiskBoot"})
                \ (IF fhost.arm THEN {} ELSE {"Nested"})) \cup {"NoAuto", NoField}
flags == UNION {{f} \X flagValues(f) : f \in formFlags}
flagSets == {Q \in {{}} \cup {{p, q} : p, q \in flags} :
               Cardinality(Q) <= MaxGiven /\ \A p, q \in Q : p[1] = q[1] => p = q}

(* A bridged card gets the default bridge.                                  *)
optsFromFlags(o) ==
  IF "NICMode" \in DOMAIN o /\ o["NICMode"] = "bridge"
  THEN [f \in DOMAIN o \cup {"NICBridge"} |-> IF f \in DOMAIN o THEN o[f] ELSE "br0"]
  ELSE o

(* Without a name the interface starts empty, whatever flags there are.     *)
createRunE(o) ==
  IF "Name" \in DOMAIN o THEN applyPrefill(newCreateModel, optsFromFlags(o)) ELSE newCreateModel

FormsInit ==
  /\ fhost \in FormHosts
  /\ \E Q \in flagSets : \E N \in {{}, {<<"Name", "flag">>}} :
       given = [f \in {q[1] : q \in Q \cup N} |-> (CHOOSE q \in Q \cup N : q[1] = f)[2]]
  /\ form = createRunE(given)
  /\ edits = 0

FormsNext ==
  /\ createChange \/ createDialog \/ createDone
  /\ UNCHANGED <<fhost, given>>

-----------------------------------------------------------------------------
(* Properties.                                                              *)

(* What is drawn with a value is submitted with that value, for every field *)
(* and whatever the user did to the others: a switch that is off, an empty  *)
(* text and a count that is no number leave the choice to the template.     *)
ShownIsSubmitted ==
  \A f \in Options :
    rendered(form, f) /\ shownValue(form, f) \notin {"", "off", "none", "junk"}
      => toBuildOpts(form)[f] = shownValue(form, f)

(* What is submitted is drawn, with that value.  Excepted are, by name, the *)
(* account while the advanced section is closed; the version, which pins    *)
(* the image of a template without distributions; the template of a VM that *)
(* is not installed; and what is left of a bridge or of a passthrough after *)
(* the mode that draws them was changed, or given without that mode.        *)
SubmittedIsShown ==
  LET leftover ==
        (IF ~form.adv THEN {"User", "Password"} ELSE {})
          \cup (IF form.noAuto THEN {"Template"} ELSE {})
          \cup (IF ~isDistroAware(form) THEN {"DistroVersion"} ELSE {})
          \cup (IF form.adv /\ chosenOf(form, "NICMode") # "bridge" THEN {"NICBridge"} ELSE {})
          \cup (IF form.adv /\ chosenOf(form, "GPUMode") # "passthrough" THEN {"GPUPCI", "AntiDetect"} ELSE {})
      sent == toBuildOpts(form)
  IN \A f \in Options \ leftover :
       sent[f] # "" => rendered(form, f) /\ sent[f] = shownValue(form, f)

(* Until the user changes something, each flag is in its field and is       *)
(* submitted as given.  Not in a field are the flags of a command without a *)
(* name, those that have no field, what is not among the choices (a version *)
(* of another distribution, --gpu-mode helios), and the account of a VM     *)
(* that is not installed.  In its field and not submitted are a switch or a *)
(* GPU turned off, which leaves the choice to the template, a distribution  *)
(* for a template without one, a vendor without a virtio GPU, and a tag     *)
(* while nothing else opens the advanced section.                           *)
PrefillKept ==
  LET mirrored(f) ==
        /\ "Name" \in DOMAIN given /\ f # NoField
        /\ f \in Selectors => given[f] \in setOf(choices(form, f))
        /\ f \in {"User", "Password"} => "NoAuto" \notin DOMAIN given
      sentOn(f) ==
        CASE f \in Toggles       -> given[f] = "on"
          [] f = "GPUMode"       -> given[f] # "none"
          [] f = "Distro"        -> isDistroAware(form)
          [] f = "GPUVendor"     -> chosenOf(form, "GPUMode") = "virtio"
          [] f = "VirtiofsTag"   -> form.adv
          [] OTHER               -> TRUE
  IN edits = 0 =>
       \A f \in DOMAIN given \ {"NoAuto"} :
         mirrored(f) => /\ shownValue(form, f) = given[f]
                        /\ sentOn(f) => toBuildOpts(form)[f] = given[f]

(* The form submits what it shows, and shows what it was given.             *)
FormSubmitsShown == ShownIsSubmitted /\ SubmittedIsShown /\ PrefillKept

=============================================================================
