------------------------------ MODULE Profiles ------------------------------
(***************************************************************************)
(* The profile repository (v2/profile/profile_repository.go) over the      *)
(* tables of v2/db: profiles are added from a URL or from content, listed, *)
(* updated, made active and deleted by concurrent callers.                 *)
(*                                                                         *)
(* A profile is a row of one database and a content file, the active       *)
(* profile a row of a second database, and nothing ties the three          *)
(* together: the process may end between any two writes.  A table          *)
(* operation opens its database exclusively, so it is one step; after 100  *)
(* attempts to open it fails.  Ids are fresh UUIDs.  Rows keep their URL   *)
(* only: names behave alike, and reads that only answer the caller         *)
(* (GetProfiles, GetActiveProfile) change nothing.                         *)
(***************************************************************************)
CONSTANTS Id,      \* profile ids; bound: adds that write something
          Url,     \* subscription URLs
          NoUrl,   \* of a profile added from content
          Caller,  \* callers of the repository
          None

Job == [id : Id, url : Url \cup {NoUrl}, mark : BOOLEAN]

ASSUME ProfilesAssumption ==
    /\ NoUrl \notin Url
    /\ None \notin Id \cup Url \cup {NoUrl} \cup Job

VARIABLES rows,       \* the profile table: the URL of each profile, None without a row
          files,      \* ids with a content file
          active,     \* the setting active_profile
          pc,         \* control state of each call
          job,        \* the profile it works on, and whether it is to be made active
          removed,    \* history: ids whose deletion has begun
          abandoned,  \* history: ids whose file an add or a delete left behind
          upserted,   \* history: ids whose row an update has created
          exclusive   \* history: no add overlapped one of its URL or was let
                      \* through by a failed lookup, no update changed a URL

vars == <<rows, files, active, pc, job, removed, abandoned, upserted, exclusive>>

TypeOK ==
    /\ rows \in [Id -> Url \cup {NoUrl, None}]
    /\ files \in SUBSET Id
    /\ active \in Id \cup {None}
    /\ pc \in [Caller -> {"idle", "download", "content", "insert", "activate", "remove", "delete"}]
    /\ job \in [Caller -> Job \cup {None}]
    /\ removed \in SUBSET Id
    /\ abandoned \in SUBSET Id
    /\ upserted \in SUBSET Id
    /\ exclusive \in BOOLEAN
    /\ \A c \in Caller : (pc[c] = "idle") = (job[c] = None)

Init ==
    /\ rows = [i \in Id |-> None]
    /\ files = {}
    /\ active = None
    /\ pc = [c \in Caller |-> "idle"]
    /\ job = [c \in Caller |-> None]
    /\ removed = {} /\ abandoned = {} /\ upserted = {} /\ exclusive = TRUE

Row == {i \in Id : rows[i] # None}

-----------------------------------------------------------------------------
Go(c, p, j) == pc' = [pc EXCEPT ![c] = p] /\ job' = [job EXCEPT ![c] = j]
Advance(c, p) == pc' = [pc EXCEPT ![c] = p] /\ UNCHANGED job
Return(c) == Go(c, "idle", None)

\* An id nobody has written anything under.
Fresh(i) ==
    /\ i \notin Row \cup files \cup removed \cup abandoned
    /\ \A c \in Caller : pc[c] # "idle" => job[c].id # i

\* The calls that are adding a profile for the URL.
Add == {"download", "content", "insert"}
Adding(u) == {c \in Caller : pc[c] \in Add /\ job[c].url = u}

(* AddByUrl and AddByContent *)

\* Mutant: the URL is not looked up.
MutAddByUrl(c, u, found, i, mark) ==
    /\ pc[c] = "idle"
    /\ Fresh(i)
    /\ Go(c, "download", [id |-> i, url |-> u, mark |-> mark])
    /\ exclusive' = (exclusive /\ found /\ Adding(u) = {})
    /\ UNCHANGED <<rows, files, active, removed, abandoned, upserted>>

\* GetByUrl finds nothing, or fails, which counts as nothing.  A profile it
\* finds is returned as it is, even if it is to be marked as active.
AddByUrl(c, u, found, i, mark) ==
    /\ pc[c] = "idle"
    /\ found => \A k \in Row : rows[k] # u
    /\ Fresh(i)
    /\ Go(c, "download", [id |-> i, url |-> u, mark |-> mark])
    /\ exclusive' = (exclusive /\ found /\ Adding(u) = {})
    /\ UNCHANGED <<rows, files, active, removed, abandoned, upserted>>

\* downloadProfileContent: by the proxy, directly, by an instance of its own.
Download(c, ok) ==
    /\ pc[c] = "download"
    /\ IF ok THEN Advance(c, "content") ELSE Return(c)
    /\ UNCHANGED <<rows, files, active, removed, abandoned, exclusive, upserted>>

AddByContent(c, i, mark) ==
    /\ pc[c] = "idle"
    /\ Fresh(i)
    /\ Go(c, "content", [id |-> i, url |-> NoUrl, mark |-> mark])
    /\ UNCHANGED <<rows, files, active, removed, abandoned, exclusive, upserted>>

\* UpdateContent: the content does not parse or the directory is missing;
\* or writing the file fails, which may leave a part of it.
ContentFails(c, written) ==
    /\ pc[c] = "content"
    /\ files' = files \cup IF written THEN {job[c].id} ELSE {}
    /\ abandoned' = abandoned \cup IF written THEN {job[c].id} ELSE {}
    /\ Return(c)
    /\ UNCHANGED <<rows, active, removed, exclusive, upserted>>

UpdateContent(c) ==
    /\ pc[c] = "content"
    /\ files' = files \cup {job[c].id}
    /\ Advance(c, "insert")
    /\ UNCHANGED <<rows, active, removed, abandoned, exclusive, upserted>>

\* Mutant: a failed insert is not noticed before the profile is made active.
MutInsert(c, ok) ==
    /\ pc[c] = "insert"
    /\ rows' = IF ok THEN [rows EXCEPT ![job[c].id] = job[c].url] ELSE rows
    /\ abandoned' = abandoned \cup IF ok THEN {} ELSE {job[c].id}
    /\ IF job[c].mark THEN Advance(c, "activate") ELSE Return(c)
    /\ UNCHANGED <<files, active, removed, exclusive, upserted>>

\* A failed insert leaves the file.
Insert(c, ok) ==
    /\ pc[c] = "insert"
    /\ rows' = IF ok THEN [rows EXCEPT ![job[c].id] = job[c].url] ELSE rows
    /\ abandoned' = abandoned \cup IF ok THEN {} ELSE {job[c].id}
    /\ IF ok /\ job[c].mark THEN Advance(c, "activate") ELSE Return(c)
    /\ UNCHANGED <<files, active, removed, exclusive, upserted>>

-----------------------------------------------------------------------------
(* SetActiveProfile, DeleteProfile, UpdateProfile *)

\* The profile is found, by id, name or URL.
SetActiveProfile(c, i) ==
    /\ pc[c] = "idle"
    /\ i \in Row
    /\ Go(c, "activate", [id |-> i, url |-> rows[i], mark |-> TRUE])
    /\ UNCHANGED <<rows, files, active, removed, abandoned, exclusive, upserted>>

\* The last step of an add as well, which ignores a failure.
Activate(c, ok) ==
    /\ pc[c] = "activate"
    /\ active' = IF ok THEN job[c].id ELSE active
    /\ Return(c)
    /\ UNCHANGED <<rows, files, removed, abandoned, exclusive, upserted>>

\* A caller may name any id but that of an add under way: nobody is told a
\* fresh UUID before its row is there.
Nameable(i) == \A c \in Caller : pc[c] \in Add => job[c].id # i

\* By id nothing is looked up; by name or URL the row was found.
DeleteProfile(c, i) ==
    /\ pc[c] = "idle"
    /\ Nameable(i)
    /\ Go(c, "remove", [id |-> i, url |-> NoUrl, mark |-> FALSE])
    /\ UNCHANGED <<rows, files, active, removed, abandoned, exclusive, upserted>>

\* Mutant: the file is not removed.
MutRemoveContent(c, ok) ==
    /\ pc[c] = "remove"
    /\ UNCHANGED files
    /\ abandoned' = abandoned \cup IF ok THEN {} ELSE files \cap {job[c].id}
    /\ removed' = removed \cup {job[c].id}
    /\ Advance(c, "delete")
    /\ UNCHANGED <<rows, active, exclusive, upserted>>

\* DeleteById ignores the outcome of os.Remove ...
RemoveContent(c, ok) ==
    /\ pc[c] = "remove"
    /\ files' = IF ok THEN files \ {job[c].id} ELSE files
    /\ abandoned' = abandoned \cup IF ok THEN {} ELSE files \cap {job[c].id}
    /\ removed' = removed \cup {job[c].id}
    /\ Advance(c, "delete")
    /\ UNCHANGED <<rows, active, exclusive, upserted>>

\* ... and then deletes the row; the active setting stays as it is.
DeleteRow(c, ok) ==
    /\ pc[c] = "delete"
    /\ rows' = IF ok THEN [rows EXCEPT ![job[c].id] = None] ELSE rows
    /\ Return(c)
    /\ UNCHANGED <<files, active, removed, abandoned, exclusive, upserted>>

\* The caller's entity is written whether or not the row is there, or ever
\* was.
UpdateProfile(c, i, u) ==
    /\ pc[c] = "idle"
    /\ Nameable(i)
    /\ rows' = [rows EXCEPT ![i] = u]
    /\ upserted' = upserted \cup ({i} \ Row)
    /\ exclusive' = (exclusive /\ rows[i] = u)
    /\ UNCHANGED <<files, active, pc, job, removed, abandoned>>

\* The process ends; so it does when SetActiveProfile or DeleteProfile finds
\* no profile of the name or URL and dereferences a nil response.
Crash ==
    /\ pc' = [c \in Caller |-> "idle"]
    /\ job' = [c \in Caller |-> None]
    /\ abandoned' = abandoned \cup {i \in files : \E c \in Caller : pc[c] = "insert" /\ job[c].id = i}
    /\ UNCHANGED <<rows, files, active, removed, exclusive, upserted>>

-----------------------------------------------------------------------------
Step(c) ==
    \/ \E u \in Url, found, mark \in BOOLEAN, i \in Id : AddByUrl(c, u, found, i, mark)
    \/ \E i \in Id, mark \in BOOLEAN : AddByContent(c, i, mark)
    \/ \E ok \in BOOLEAN :
          \/ Download(c, ok) \/ ContentFails(c, ok) \/ Insert(c, ok)
          \/ Activate(c, ok) \/ RemoveContent(c, ok) \/ DeleteRow(c, ok)
    \/ UpdateContent(c)
    \/ \E i \in Id : SetActiveProfile(c, i) \/ DeleteProfile(c, i)
    \/ \E i \in Id, u \in Url \cup {NoUrl} : UpdateProfile(c, i, u)

Next == Crash \/ \E c \in Caller : Step(c)

Spec == Init /\ [][Next]_vars

-----------------------------------------------------------------------------
(* Properties *)

\* Every profile that was added has its content unless its deletion has
\* begun, and every content file has its profile unless an add is about to
\* insert it or a failure left it behind: whatever calls overlap, fail or are
\* cut off.  (UpdateProfile may write a row that was never added, or that a
\* deletion has taken away; it writes no content.)
ContentMatches ==
    /\ Row \ files \subseteq removed \cup upserted
    /\ \A i \in files \ Row : i \in abandoned \/ \E c \in Caller : pc[c] = "insert" /\ job[c].id = i

\* A URL has one profile, as AddByUrl's lookup intends: as long as no two
\* adds of it overlapped, no lookup failed and no update changed a URL.
OneProfilePerUrl ==
    exclusive => \A i, k \in Row : rows[i] = rows[k] /\ rows[i] \in Url => i = k

\* The active profile has a row: it dangles only after a deletion.
ActiveExists == active \in Row \cup removed \cup {None}

-----------------------------------------------------------------------------
(* The inductive invariant behind them *)

\* An add has its id to itself and writes the file before the row; a profile
\* that is made active has a row.
JobInv ==
    \A c \in Caller :
        /\ pc[c] \in Add => job[c].id \notin Row \cup removed
        /\ pc[c] = "insert" => job[c].id \in files
        /\ pc[c] = "activate" => job[c].id \in Row \cup removed
        /\ pc[c] = "delete" => job[c].id \in removed
        /\ \A d \in Caller \ {c} : pc[c] \in Add /\ pc[d] # "idle" => job[c].id # job[d].id

\* A file that outlasts the deletion of its profile was left behind.
RemovedInv == removed \cap files \subseteq abandoned

\* An add that was let through is the only one of its URL.
UrlInv ==
    exclusive => \A c \in Caller : pc[c] \in Add /\ job[c].url \in Url =>
        /\ \A i \in Row : rows[i] # job[c].url
        /\ \A d \in Caller : pc[d] \in Add /\ job[d].url = job[c].url => d = c

ProfInv == JobInv /\ RemovedInv /\ UrlInv /\ ContentMatches /\ OneProfilePerUrl /\ ActiveExists
=============================================================================
