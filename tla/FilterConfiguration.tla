-------------------------- MODULE FilterConfiguration --------------------------
(***************************************************************************)
(* The filter's settings between the registry and the processes that load  *)
(* the DLL.  DllMain loads them when a process loads the DLL and again     *)
(* when it lets it go (_DllEntryPoint has turned the calls for threads     *)
(* off); where loading fails it writes what it has and loads again; the    *)
(* process that unregisters the filter removes them instead.  Every        *)
(* registry call is a step, so that processes interleave between two       *)
(* calls.  The user edits settings while no process is inside of DllMain.  *)
(*                                                                         *)
(* Settings are numbered in the order in which they are read and written;  *)
(* the last one is the font's name, whose size is asked for in a call of   *)
(* its own.  The key is never closed, and a key removed while it is open   *)
(* is gone for its handles.                                                *)
(***************************************************************************)
EXTENDS Integers

CONSTANTS
  Players, Unregistering, \* processes: those that use the filter, and regsvr32 /u
  Settings,               \* number of settings
  Values, default,        \* what a setting may be, and its initial value
  absent,                 \* not a value: there is none, or one of another type
  long,                   \* a font's name longer than the others
  MaxKeys, MaxEdits       \* bounds: how often the key is created and edited

Names == 1 .. Settings
FontName == Settings
Processes == Players \cup Unregistering

ASSUME FilterConfigurationAssumption ==
  /\ Players \cap Unregistering = {}
  /\ Settings \in Nat \ {0, 1}
  /\ absent \notin Values
  /\ default \in Values /\ long \in Values \ {default}
  /\ MaxKeys \in Nat /\ MaxEdits \in Nat

VARIABLES
  key,      \* 0 if there is none, else which one
  keys,     \* keys created so far
  stored,   \* the values of the key
  main,     \* DllMain of a process: where it is, if it lets the DLL go, if it
            \* loads again, the key it opened, its next setting, the font sized
  config,   \* g_SubtitleCoreConfigData of a process
  before,   \* history: the values when the first process entered DllMain
  unlucky,  \* history: a dataSize without a value was too small
  changed,  \* history: someone else changed a value since a process entered DllMain
  edits     \* history: edits of the user

configurationVars == <<key, keys, stored, main, config, before, unlucky, changed, edits>>
registry == <<key, keys, stored>>

NoValues == [n \in Names |-> absent]
Defaults == [n \in Names |-> default]

Outside(where) ==
  [at |-> where, leaving |-> FALSE, again |-> FALSE, handle |-> 0, next |-> 1, sized |-> default]

ConfigurationInit ==
  /\ key \in {0, 1} /\ keys = key
  /\ stored \in IF key = 0 THEN {NoValues} ELSE [Names -> Values \cup {absent}]
  /\ main = [p \in Processes |-> Outside("out")]
  /\ config = [p \in Processes |-> Defaults]
  /\ before = NoValues /\ unlucky = FALSE
  /\ changed = [p \in Processes |-> FALSE] /\ edits = 0

InDllMain == {p \in Processes : main[p].at \notin {"out", "loaded", "gone"}}

InProcess(p) == main[p].at \notin {"out", "gone"}
At(p, where) == main[p].at = where

(* A value that p writes is a change for the others. *)
Changes(p) ==
  changed' = [q \in Processes |->
                changed[q] \/ (q # p /\ InProcess(q) /\ stored' # stored)]

(* DllMain on attach and detach. *)
Enter(p) ==
  /\ main[p].at \in {"out", "loaded"}
  /\ main' = [main EXCEPT ![p].leaving = At(p, "loaded"),
                          ![p].at = IF At(p, "loaded") /\ p \in Unregistering
                                    THEN "removing" ELSE "opening"]
  /\ before' = IF InDllMain = {} THEN stored ELSE before
  /\ changed' = [changed EXCEPT ![p] = FALSE]
  /\ UNCHANGED <<registry, config, unlucky, edits>>

(* DllMain returns; a process that has let the DLL go has no settings.     *)
Leave(p, settings) ==
  IF main[p].leaving
  THEN /\ main' = [main EXCEPT ![p] = Outside("gone")]
       /\ config' = [config EXCEPT ![p] = Defaults]
       /\ changed' = [changed EXCEPT ![p] = FALSE]
  ELSE /\ main' = [main EXCEPT ![p] = Outside("loaded")]
       /\ config' = [config EXCEPT ![p] = settings] /\ UNCHANGED changed

(* Load returned: a failure the first time leads to a write. *)
LoadFails(p) ==
  IF main[p].again THEN Leave(p, config[p])
  ELSE main' = [main EXCEPT ![p].at = "creating"] /\ UNCHANGED <<config, changed>>

Open(p) ==
  /\ At(p, "opening")
  /\ IF key # 0
     THEN /\ main' = [main EXCEPT ![p].at = "reading", ![p].handle = key, ![p].next = 1]
          /\ UNCHANGED <<config, changed>>
     ELSE LoadFails(p)
  /\ UNCHANGED <<registry, before, unlucky, edits>>

HasValue(p, n) == main[p].handle = key /\ stored[n] # absent

(* A value of four bytes.  dataSize has no value before the first call,    *)
(* which fails if what it holds is less than four.                         *)
ReadValue(p) ==
  LET n == main[p].next
  IN  /\ At(p, "reading") /\ n # FontName
      /\ \E small \in BOOLEAN :
           /\ small => n = 1 /\ HasValue(p, 1)
           /\ unlucky' = (unlucky \/ small)
           /\ IF HasValue(p, n) /\ ~small
              THEN /\ config' = [config EXCEPT ![p][n] = stored[n]]
                   /\ main' = [main EXCEPT ![p].next = n + 1] /\ UNCHANGED changed
              ELSE LoadFails(p)
      /\ UNCHANGED <<registry, before, edits>>

(* The font's name: its size, then the name if it still fits. *)
ReadFontSize(p) ==
  /\ At(p, "reading") /\ main[p].next = FontName
  /\ IF HasValue(p, FontName)
     THEN /\ main' = [main EXCEPT ![p].at = "sized", ![p].sized = stored[FontName]]
          /\ UNCHANGED <<config, changed>>
     ELSE LoadFails(p)
  /\ UNCHANGED <<registry, before, unlucky, edits>>

ReadFontName(p) ==
  /\ At(p, "sized")
  /\ IF HasValue(p, FontName) /\ (stored[FontName] = long => main[p].sized = long)
     THEN Leave(p, [config[p] EXCEPT ![FontName] = stored[FontName]])
     ELSE LoadFails(p)
  /\ UNCHANGED <<registry, before, unlucky, edits>>

Create(p) ==
  /\ At(p, "creating")
  /\ IF key = 0
     THEN /\ keys < MaxKeys
          /\ keys' = keys + 1 /\ key' = keys + 1 /\ stored' = NoValues
     ELSE UNCHANGED registry
  /\ main' = [main EXCEPT ![p].at = "writing", ![p].handle = key', ![p].next = 1]
  /\ UNCHANGED <<config, before, unlucky, changed, edits>>

(* Mutants: the defaults are written, not what the process has; the font   *)
(* is left out.                                                            *)
Written_Defaults(p, n) == default
Written_WithoutFont(p, n) == IF n = FontName THEN stored[n] ELSE config[p][n]

(* What RegSetValueEx is given for a setting. *)
Written(p, n) == config[p][n]

WriteValue(p) ==
  LET n == main[p].next
  IN  /\ At(p, "writing")
      /\ stored' = IF main[p].handle = key
                   THEN [stored EXCEPT ![n] = Written(p, n)] ELSE stored
      /\ Changes(p)
      /\ main' = IF n < Settings THEN [main EXCEPT ![p].next = n + 1]
                 ELSE [main EXCEPT ![p].at = "opening", ![p].again = TRUE]
      /\ UNCHANGED <<key, keys, config, before, unlucky, edits>>

(* RemoveFilterConfigurationDataFromRegistry. *)
Remove(p) ==
  /\ At(p, "removing")
  /\ key' = 0 /\ stored' = NoValues /\ before' = NoValues
  /\ changed' = [q \in Processes |-> q # p /\ InProcess(q)]
  /\ main' = [main EXCEPT ![p] = Outside("gone")]
  /\ config' = [config EXCEPT ![p] = Defaults]
  /\ UNCHANGED <<keys, unlucky, edits>>

(* The user, with a registry editor. *)
Edit(n, v) ==
  /\ InDllMain = {} /\ key # 0 /\ v # stored[n] /\ edits < MaxEdits
  /\ stored' = [stored EXCEPT ![n] = v] /\ before' = stored'
  /\ changed' = [p \in Processes |-> InProcess(p)] /\ edits' = edits + 1
  /\ UNCHANGED <<key, keys, main, config, unlucky>>

ConfigurationNext ==
  \/ \E p \in Processes :
       Enter(p) \/ Open(p) \/ ReadValue(p) \/ ReadFontSize(p) \/ ReadFontName(p)
       \/ Create(p) \/ WriteValue(p) \/ Remove(p)
  \/ \E n \in Names, v \in Values \cup {absent} : Edit(n, v)

ConfigurationSpec == ConfigurationInit /\ [][ConfigurationNext]_configurationVars

-----------------------------------------------------------------------------
(* A process that has loaded the DLL uses what the registry holds, unless  *)
(* someone else has changed that since it entered DllMain: loading in  *)
(* part, writing and loading again (dllmain.cpp:154-165) agree in the end, *)
(* even when the second loading fails like the first.                      *)
Settled ==
  \A p \in Processes : At(p, "loaded") /\ ~changed[p] => config[p] = stored

(* Processes that enter and leave DllMain together do not lose a setting   *)
(* of the user that is stored with all those read before it; only a        *)
(* dataSize that happens to be small makes them.                           *)
UserKept ==
  ~unlucky =>
    \A n \in Names :
      (\A m \in 1 .. n : before[m] # absent) => stored[n] = before[n]
=============================================================================
