--------------------------- MODULE AdvancedDialog ---------------------------
(***************************************************************************)
(* The manager's advanced configuration window (AdvancedDialog in         *)
(* src/opensand-manager/opensand_manager_gui/view/popup/                   *)
(* advanced_dialog.py).  Every callback runs in the GTK main thread; the   *)
(* only concurrency is re-entrance: a modal error_popup runs a nested      *)
(* main loop in which the 1-second update_trees timer still fires.  So     *)
(* the callbacks that hold _host_lock (a non-reentrant threading.Lock)     *)
(* release it around each popup.  The host list of the model changes      *)
(* under the window when daemons come and go.                             *)
(*                                                                         *)
(* Hosts are names; a host's configuration views, modules and the tree     *)
(* widgets are abstracted away, except the keys of _modules_tree.          *)
(***************************************************************************)
EXTENDS Naturals, FiniteSets

CONSTANTS
    HOSTS,      \* host names
    InitHosts,  \* the model's hosts when the window opens
    None,       \* no current host
    MaxChanges  \* bound on hosts joining or leaving

VARIABLES
    hosts,      \* names of model.get_hosts_list()
    hostsName,  \* self._hosts_name
    modTree,    \* the keys of self._modules_tree
    current,    \* self._current_host (its name) or None
    allModules, \* self._all_modules
    lock,       \* self._host_lock: "free" or "held"
    timer,      \* the update_trees timeout source is installed
    pc,         \* where the main thread is (see Phases)
    caller,     \* who called the running loop: "load", "undo", "apply", "save"
    todo,       \* items left in the running loop (hosts + the global model)
    changes     \* hosts joined or left so far

vars == <<hosts, hostsName, modTree, current, allModules, lock, timer, pc,
          caller, todo, changes>>

\* "open": before go(); "idle": the main loop waits for an event;
\* "reset"/"apply": inside a loop; "*_popup": a nested main loop of an
\* error_popup in that loop; "frozen": blocked on _host_lock held by the
\* main thread itself; "closed": the window is destroyed.
Phases == {"open", "idle", "reset", "reset_popup", "apply", "apply_popup",
           "frozen", "closed"}

TypeOK ==
    /\ hosts \subseteq HOSTS /\ hostsName \subseteq HOSTS
    /\ modTree \subseteq HOSTS
    /\ current \in HOSTS \cup {None}
    /\ allModules \in BOOLEAN /\ timer \in BOOLEAN
    /\ lock \in {"free", "held"}
    /\ pc \in Phases
    /\ caller \in {"load", "undo", "apply", "save"}
    /\ todo \in 0..(Cardinality(HOSTS) + 1)
    /\ changes \in 0..MaxChanges

-----------------------------------------------------------------------------

Init ==
    /\ hosts = InitHosts
    /\ hostsName = {}
    /\ modTree = {}
    /\ current = None
    /\ allModules = FALSE
    /\ lock = "free"
    /\ timer = FALSE
    /\ pc = "open"
    /\ caller = "load"
    /\ todo = 0
    /\ changes = 0

\* _host_lock.acquire() by the main thread when it already holds it.
Freeze ==
    /\ pc' = "frozen"
    /\ UNCHANGED <<hosts, hostsName, modTree, current, allModules, lock,
                   timer, caller, todo, changes>>

\* update_modules_tree: a tree is made for the current host if it has none.
UpdateModulesTree(mt, cur) == IF cur = None THEN mt ELSE mt \cup {cur}

\* The daemons of the platform come and go (the model's host list).
HostJoins(h) ==
    /\ h \notin hosts /\ changes < MaxChanges /\ pc # "closed"
    /\ hosts' = hosts \cup {h}
    /\ changes' = changes + 1
    /\ UNCHANGED <<hostsName, modTree, current, allModules, lock, timer, pc, caller, todo>>

HostLeaves(h) ==
    /\ h \in hosts /\ changes < MaxChanges /\ pc # "closed"
    /\ hosts' = hosts \ {h}
    /\ changes' = changes + 1
    /\ UNCHANGED <<hostsName, modTree, current, allModules, lock, timer, pc, caller, todo>>

\* update_trees, run by the timer (in the idle main loop or in a popup's
\* nested loop).  New hosts are listed; each vanished host is unlisted and
\* its module tree deleted, in set order; del raises KeyError for a host
\* that never had a tree.  The exception leaves the lock held, and PyGTK
\* removes a timeout whose callback raised.
update_trees ==
    /\ timer /\ pc \in {"idle", "reset_popup", "apply_popup"}
    /\ IF lock = "held" THEN Freeze ELSE
       LET listed == hostsName \cup hosts
           old == hostsName \ hosts
       IN \/ /\ old \subseteq modTree
             /\ hostsName' = hosts
             /\ modTree' = UpdateModulesTree(modTree \ old, current)
             /\ UNCHANGED <<lock, timer>>
          \/ \E f \in old \ modTree, done \in SUBSET (old \cap modTree) :
             /\ hostsName' = listed \ (done \cup {f})
             /\ modTree' = modTree \ done
             /\ lock' = "held"
             /\ timer' = FALSE
    /\ UNCHANGED <<hosts, current, allModules, pc, caller, todo, changes>>

\* The first update_trees of load(): nothing is listed yet, so it cannot
\* raise; then the timer is installed.
FirstUpdate ==
    /\ hostsName' = hosts
    /\ modTree' = UpdateModulesTree(modTree, current)
    /\ timer' = TRUE

\* go() -> load() -> reset(), and on_undo_advanced_conf_clicked -> reset():
\* take the lock and loop over the hosts and the global model.
ResetBegin ==
    /\ pc \in {"open", "idle"}
    /\ IF lock = "held" THEN Freeze ELSE
       /\ lock' = "held"
       /\ todo' = Cardinality(hosts) + 1
       /\ pc' = "reset"
       /\ caller' = IF pc = "open" THEN "load" ELSE "undo"
    /\ UNCHANGED <<hosts, hostsName, modTree, current, allModules, timer, changes>>

\* on_apply_advanced_conf_clicked, directly or from the OK button
\* (on_save_advanced_conf_clicked): take the lock and loop.
ApplyBegin ==
    /\ pc = "idle"
    /\ IF lock = "held" THEN Freeze ELSE
       /\ lock' = "held"
       /\ todo' = Cardinality(hosts) + 1
       /\ pc' = "apply"
       /\ \E c \in {"apply", "save"} : caller' = c
    /\ UNCHANGED <<hosts, hostsName, modTree, current, allModules, timer, changes>>

\* Mutant: an item that meets an error is counted when the popup opens,
\* and again when it closes.
LoopItem_countpopup ==
    /\ pc \in {"reset", "apply"} /\ todo > 0
    /\ \/ /\ todo' = todo - 1
          /\ UNCHANGED <<lock, pc>>
       \/ /\ lock' = "free"
          /\ pc' = IF pc = "reset" THEN "reset_popup" ELSE "apply_popup"
          /\ todo' = todo - 1
    /\ UNCHANGED <<hosts, hostsName, modTree, current, allModules, timer, caller, changes>>

\* Mutant: the error popup is shown with the lock still held.
LoopItem_keeplock ==
    /\ pc \in {"reset", "apply"} /\ todo > 0
    /\ \/ /\ todo' = todo - 1
          /\ UNCHANGED <<lock, pc>>
       \/ /\ pc' = IF pc = "reset" THEN "reset_popup" ELSE "apply_popup"
          /\ UNCHANGED <<lock, todo>>
    /\ UNCHANGED <<hosts, hostsName, modTree, current, allModules, timer, caller, changes>>

\* One item of the reset / apply loop.  It goes through, or it meets an
\* error (no advanced configuration, a reload or save failure) and the
\* lock is released around error_popup.
LoopItem ==
    /\ pc \in {"reset", "apply"} /\ todo > 0
    /\ \/ /\ todo' = todo - 1
          /\ UNCHANGED <<lock, pc>>
       \/ /\ lock' = "free"
          /\ pc' = IF pc = "reset" THEN "reset_popup" ELSE "apply_popup"
          /\ UNCHANGED todo
    /\ UNCHANGED <<hosts, hostsName, modTree, current, allModules, timer, caller, changes>>

\* The popup is dismissed: its nested main loop returns and the lock is
\* taken again before the loop goes on.
PopupDone ==
    /\ pc \in {"reset_popup", "apply_popup"}
    /\ IF lock = "held" THEN Freeze ELSE
       /\ lock' = "held"
       /\ todo' = todo - 1
       /\ pc' = IF pc = "reset_popup" THEN "reset" ELSE "apply"
       /\ UNCHANGED caller
    /\ UNCHANGED <<hosts, hostsName, modTree, current, allModules, timer, changes>>

\* The end of reset(): the lock is released.  From load(), update_trees
\* runs once and the timer is installed.  From undo, the saved enabled
\* list is restored under the lock, the selection is shown again, and the
\* window is closed (close() removes the timer).
ResetEnd ==
    /\ pc = "reset" /\ todo = 0
    /\ lock' = "free"
    /\ IF caller = "load"
       THEN FirstUpdate /\ pc' = "idle"
       ELSE pc' = "closed" /\ timer' = FALSE /\ UNCHANGED <<hostsName, modTree>>
    /\ UNCHANGED <<hosts, current, allModules, caller, todo, changes>>

\* The end of the apply loop: the lock is released; the OK button then
\* closes the window.
ApplyEnd ==
    /\ pc = "apply" /\ todo = 0
    /\ lock' = "free"
    /\ IF caller = "save" THEN pc' = "closed" /\ timer' = FALSE
       ELSE pc' = "idle" /\ UNCHANGED timer
    /\ UNCHANGED <<hosts, hostsName, modTree, current, allModules, caller, todo, changes>>

\* on_host_selected: a listed host that the model no longer has gets an
\* error popup; otherwise it becomes current and, if it has an advanced
\* configuration, update_modules_tree gives it a module tree.
on_host_selected(h) ==
    /\ pc = "idle" /\ h \in hostsName
    /\ IF h \notin hosts THEN UNCHANGED <<current, modTree>>
       ELSE /\ current' = h
            /\ \E hasConf \in BOOLEAN :
                 modTree' = IF hasConf THEN UpdateModulesTree(modTree, h) ELSE modTree
    /\ UNCHANGED <<hosts, hostsName, allModules, lock, timer, pc, caller, todo, changes>>

\* on_plugins_checkbutton_toggled: every module tree is dropped, then
\* update_modules_tree rebuilds the current host's.
on_plugins_checkbutton_toggled ==
    /\ pc = "idle"
    /\ allModules' = ~allModules
    /\ modTree' = UpdateModulesTree({}, current)
    /\ UNCHANGED <<hosts, hostsName, current, lock, timer, pc, caller, todo, changes>>

\* on_advanced_dialog_delete_event -> close(): the timer is removed.
close ==
    /\ pc = "idle"
    /\ pc' = "closed"
    /\ timer' = FALSE
    /\ UNCHANGED <<hosts, hostsName, modTree, current, allModules, lock, caller, todo, changes>>

Next ==
    \/ \E h \in HOSTS : HostJoins(h) \/ HostLeaves(h) \/ on_host_selected(h)
    \/ update_trees
    \/ ResetBegin \/ ApplyBegin \/ LoopItem \/ PopupDone \/ ResetEnd \/ ApplyEnd
    \/ on_plugins_checkbutton_toggled \/ close

Spec == Init /\ [][Next]_vars

-----------------------------------------------------------------------------
(* Properties *)

\* The window never hangs: the main thread never blocks on _host_lock,
\* which only it takes (reset, update_trees, apply, undo).
GuiNeverHangs == pc # "frozen"

\* The releases around error_popup keep the nested update_trees from
\* blocking the main thread: whenever it blocks on _host_lock, the lock
\* was left held by an update_trees that raised (and lost its timer).
HangOnlyAfterTimerFailed == pc = "frozen" => ~timer

=============================================================================
