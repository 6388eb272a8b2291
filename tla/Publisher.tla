------------------------------ MODULE Publisher ------------------------------
(***************************************************************************)
(* What the agent promises of its configuration files and engines, whatever *)
(* requests interleave, fail or are killed: a file holds nothing usable, or *)
(* the rendering of two listings one writer took, presets before users; a   *)
(* file is vouched for only from a rendering of the present tables until    *)
(* the tables change or anybody touches the file; and an engine serves      *)
(* what its file held when it was last started.                            *)
(***************************************************************************)
CONSTANTS
  Engines, Writers,
  PresetTables, UserTables,     \* contents of the two tables
  Render(_, _, _),              \* what an engine is to serve, by both tables
  None                          \* no listing taken

VARIABLES
  presets, users,               \* the tables
  draft,                        \* the listings each writer holds
  disk,                         \* per engine: {a rendering}, or {}
  serving,                      \* likewise, of the process
  vouched                       \* engines whose file is the present tables

tables    == <<presets, users>>
published == <<presets, users, draft, disk, serving, vouched>>

Blank == [presets |-> None, users |-> None]

Init ==
  /\ presets \in PresetTables /\ users \in UserTables
  /\ draft = [w \in Writers |-> Blank]
  /\ disk = [e \in Engines |-> {}]
  /\ serving = [e \in Engines |-> {}]
  /\ vouched = {}

Change ==
  /\ presets' \in PresetTables /\ users' \in UserTables
  /\ vouched' = {}
  /\ UNCHANGED <<draft, disk, serving>>

ReadPresets(w) ==
  /\ draft' = [draft EXCEPT ![w] = [presets |-> presets, users |-> None]]
  /\ UNCHANGED <<tables, disk, serving, vouched>>

ReadUsers(w) ==
  /\ draft[w].presets # None
  /\ draft' = [draft EXCEPT ![w].users = users]
  /\ UNCHANGED <<tables, disk, serving, vouched>>

(* The writers in W give their listings up, or die.                        *)
Discard(W) == draft' = [w \in Writers |-> IF w \in W THEN Blank ELSE draft[w]]

(* Both listings are taken; each is used once.                             *)
Publish(w, e) ==
  /\ draft[w].presets # None /\ draft[w].users # None
  /\ disk' = [disk EXCEPT ![e] = {Render(e, draft[w].presets, draft[w].users)}]
  /\ \/ vouched' = vouched \ {e}
     \/ draft[w] = [presets |-> presets, users |-> users] /\ vouched' = vouched \cup {e}
  /\ Discard({w})
  /\ UNCHANGED <<tables, serving>>

(* A file is opened, or a write goes wrong.                                *)
Spoil(e) ==
  /\ \E d \in {disk[e], {}} : disk' = [disk EXCEPT ![e] = d]
  /\ vouched' = vouched \ {e}
  /\ \E W \in SUBSET Writers : Discard(W)
  /\ UNCHANGED <<tables, serving>>

(* Some engines are started over their files; writers may give up.         *)
Restart(E) ==
  /\ serving' = [e \in Engines |-> IF e \in E THEN disk[e] ELSE serving[e]]
  /\ \E W \in SUBSET Writers : Discard(W)
  /\ UNCHANGED <<tables, disk, vouched>>

Next ==
  \/ Change
  \/ \E w \in Writers :
       ReadPresets(w) \/ ReadUsers(w) \/ \E e \in Engines : Publish(w, e)
  \/ \E e \in Engines : Spoil(e)
  \/ \E E \in SUBSET Engines : Restart(E)

Spec == Init /\ [][Next]_published
=============================================================================
