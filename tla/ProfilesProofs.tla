--------------------------- MODULE ProfilesProofs ---------------------------
(***************************************************************************)
(* Profiles: for any number of profiles, URLs and callers.  ProfInv holds  *)
(* the properties and what they rest on: an add has its id to itself       *)
(* (JobInv), a file that outlasts a deletion was left behind (RemovedInv), *)
(* and an exclusive add is the only one of its URL (UrlInv).               *)
(***************************************************************************)
EXTENDS Profiles, TLAPS

LEMMA InitInv ==
  ASSUME Init  PROVE TypeOK /\ ProfInv
  <1> USE ProfilesAssumption DEF Init, Row
  <1>1. TypeOK  BY DEF TypeOK
  <1>2. JobInv /\ RemovedInv /\ UrlInv  BY DEF JobInv, RemovedInv, UrlInv, Add
  <1>3. ContentMatches /\ OneProfilePerUrl /\ ActiveExists
    BY DEF ContentMatches, OneProfilePerUrl, ActiveExists
  <1> QED  BY <1>1, <1>2, <1>3 DEF ProfInv

\* A call that is under way has a job.
LEMMA JobTyped ==
  ASSUME TypeOK, NEW c \in Caller, pc[c] # "idle"
  PROVE  /\ job[c] \in Job /\ job[c].id \in Id
         /\ job[c].url \in Url \cup {NoUrl} /\ job[c].mark \in BOOLEAN
  BY DEF TypeOK, Job

\* The id is fresh, and the URL is nobody else's unless the add is not exclusive.
LEMMA AddByUrlInv ==
  ASSUME TypeOK, ProfInv, NEW c \in Caller, NEW u \in Url, NEW found \in BOOLEAN, NEW i \in Id, NEW mark \in BOOLEAN, AddByUrl(c, u, found, i, mark)
  PROVE  TypeOK' /\ ProfInv'
  <1> USE ProfilesAssumption DEF AddByUrl, Fresh, Go, ProfInv, Row
  <1>0. [id |-> i, url |-> u, mark |-> mark] \in Job
    BY DEF TypeOK, Job
  <1>1. TypeOK'  BY <1>0 DEF TypeOK
  <1>2. JobInv'  BY JobTyped DEF TypeOK, JobInv, Add
  <1>3. RemovedInv'  BY JobTyped DEF TypeOK, RemovedInv, JobInv, Add
  <1>4. UrlInv'
    <2> SUFFICES ASSUME exclusive', NEW d \in Caller, pc'[d] \in Add, job'[d].url \in Url
                 PROVE  /\ \A k \in Row : rows[k] # job'[d].url
                        /\ \A e \in Caller : pc'[e] \in Add /\ job'[e].url = job'[d].url => e = d
      BY DEF UrlInv
    <2>1. exclusive /\ found /\ Adding(u) = {}  BY Zenon
    <2>2. \A e \in Caller \ {c} : pc'[e] = pc[e] /\ job'[e] = job[e]  BY DEF TypeOK
    <2>3. pc'[c] = "download" /\ job'[c].url = u  BY DEF TypeOK
    <2>4. CASE d = c  BY <2>1, <2>2, <2>3, <2>4 DEF Adding, Add
    <2>5. CASE d # c  BY <2>1, <2>2, <2>3, <2>5 DEF UrlInv, Adding, Add
    <2> QED  BY <2>4, <2>5
  <1>5. ContentMatches'  BY JobTyped DEF TypeOK, ContentMatches, JobInv, RemovedInv, Add
  <1>6. OneProfilePerUrl'  BY JobTyped DEF TypeOK, OneProfilePerUrl, UrlInv, Add
  <1>7. ActiveExists'  BY JobTyped DEF TypeOK, ActiveExists, JobInv
  <1> QED  BY <1>1, <1>2, <1>3, <1>4, <1>5, <1>6, <1>7

LEMMA DownloadInv ==
  ASSUME TypeOK, ProfInv, NEW c \in Caller, NEW ok \in BOOLEAN, Download(c, ok)
  PROVE  TypeOK' /\ ProfInv'
  <1> USE ProfilesAssumption DEF Download, Advance, Return, Go, ProfInv, Row
  <1>1. TypeOK'  BY JobTyped DEF TypeOK, Job
  <1>2. JobInv'  BY JobTyped DEF TypeOK, JobInv, Add
  <1>3. RemovedInv'  BY JobTyped DEF TypeOK, RemovedInv, JobInv, Add
  <1>4. UrlInv'  BY JobTyped DEF TypeOK, UrlInv, Add
  <1>5. ContentMatches'  BY JobTyped DEF TypeOK, ContentMatches, JobInv, RemovedInv, Add
  <1>6. OneProfilePerUrl'  BY JobTyped DEF TypeOK, OneProfilePerUrl, UrlInv, Add
  <1>7. ActiveExists'  BY JobTyped DEF TypeOK, ActiveExists, JobInv
  <1> QED  BY <1>1, <1>2, <1>3, <1>4, <1>5, <1>6, <1>7

LEMMA AddByContentInv ==
  ASSUME TypeOK, ProfInv, NEW c \in Caller, NEW i \in Id, NEW mark \in BOOLEAN, AddByContent(c, i, mark)
  PROVE  TypeOK' /\ ProfInv'
  <1> USE ProfilesAssumption DEF AddByContent, Fresh, Go, ProfInv, Row
  <1>0. [id |-> i, url |-> NoUrl, mark |-> mark] \in Job
    BY DEF TypeOK, Job
  <1>1. TypeOK'  BY <1>0 DEF TypeOK
  <1>2. JobInv'  BY JobTyped DEF TypeOK, JobInv, Add
  <1>3. RemovedInv'  BY JobTyped DEF TypeOK, RemovedInv, JobInv, Add
  <1>4. UrlInv'  BY JobTyped DEF TypeOK, UrlInv, Add
  <1>5. ContentMatches'  BY JobTyped DEF TypeOK, ContentMatches, JobInv, RemovedInv, Add
  <1>6. OneProfilePerUrl'  BY JobTyped DEF TypeOK, OneProfilePerUrl, UrlInv, Add
  <1>7. ActiveExists'  BY JobTyped DEF TypeOK, ActiveExists, JobInv
  <1> QED  BY <1>1, <1>2, <1>3, <1>4, <1>5, <1>6, <1>7

LEMMA ContentFailsInv ==
  ASSUME TypeOK, ProfInv, NEW c \in Caller, NEW w \in BOOLEAN, ContentFails(c, w)
  PROVE  TypeOK' /\ ProfInv'
  <1> USE ProfilesAssumption DEF ContentFails, Return, Go, ProfInv, Row
  <1>1. TypeOK'  BY JobTyped DEF TypeOK, Job
  <1>2. JobInv'  BY JobTyped DEF TypeOK, JobInv, Add
  <1>3. RemovedInv'  BY JobTyped DEF TypeOK, RemovedInv, JobInv, Add
  <1>4. UrlInv'  BY JobTyped DEF TypeOK, UrlInv, Add
  <1>5. ContentMatches'  BY JobTyped DEF TypeOK, ContentMatches, JobInv, RemovedInv, Add
  <1>6. OneProfilePerUrl'  BY JobTyped DEF TypeOK, OneProfilePerUrl, UrlInv, Add
  <1>7. ActiveExists'  BY JobTyped DEF TypeOK, ActiveExists, JobInv
  <1> QED  BY <1>1, <1>2, <1>3, <1>4, <1>5, <1>6, <1>7

\* The file of an add that is about to insert.
LEMMA UpdateContentInv ==
  ASSUME TypeOK, ProfInv, NEW c \in Caller, UpdateContent(c)
  PROVE  TypeOK' /\ ProfInv'
  <1> USE ProfilesAssumption DEF UpdateContent, Advance, ProfInv, Row
  <1>1. TypeOK'  BY JobTyped DEF TypeOK, Job
  <1>2. JobInv'  BY JobTyped DEF TypeOK, JobInv, Add
  <1>3. RemovedInv'  BY JobTyped DEF TypeOK, RemovedInv, JobInv, Add
  <1>4. UrlInv'  BY JobTyped DEF TypeOK, UrlInv, Add
  <1>5. ContentMatches'  BY JobTyped DEF TypeOK, ContentMatches, JobInv, RemovedInv, Add
  <1>6. OneProfilePerUrl'  BY JobTyped DEF TypeOK, OneProfilePerUrl, UrlInv, Add
  <1>7. ActiveExists'  BY JobTyped DEF TypeOK, ActiveExists, JobInv
  <1> QED  BY <1>1, <1>2, <1>3, <1>4, <1>5, <1>6, <1>7

\* The row gets a file that was written before, and a URL no row has.
LEMMA InsertInv ==
  ASSUME TypeOK, ProfInv, NEW c \in Caller, NEW ok \in BOOLEAN, Insert(c, ok)
  PROVE  TypeOK' /\ ProfInv'
  <1> USE ProfilesAssumption DEF Insert, Advance, Return, Go, ProfInv, Row
  <1>1. TypeOK'  BY JobTyped DEF TypeOK, Job
  <1>2. JobInv'  BY JobTyped DEF TypeOK, JobInv, Add
  <1>3. RemovedInv'  BY JobTyped DEF TypeOK, RemovedInv, JobInv, Add
  <1>4. UrlInv'  BY JobTyped DEF TypeOK, UrlInv, Add
  <1>5. ContentMatches'  BY JobTyped DEF TypeOK, ContentMatches, JobInv, RemovedInv, Add
  <1>6. OneProfilePerUrl'  BY JobTyped DEF TypeOK, OneProfilePerUrl, UrlInv, Add
  <1>7. ActiveExists'  BY JobTyped DEF TypeOK, ActiveExists, JobInv
  <1> QED  BY <1>1, <1>2, <1>3, <1>4, <1>5, <1>6, <1>7

LEMMA SetActiveProfileInv ==
  ASSUME TypeOK, ProfInv, NEW c \in Caller, NEW i \in Id, SetActiveProfile(c, i)
  PROVE  TypeOK' /\ ProfInv'
  <1> USE ProfilesAssumption DEF SetActiveProfile, Go, ProfInv, Row
  <1>0. [id |-> i, url |-> rows[i], mark |-> TRUE] \in Job
    BY DEF TypeOK, Job
  <1>1. TypeOK'  BY <1>0 DEF TypeOK
  <1>2. JobInv'  BY JobTyped DEF TypeOK, JobInv, Add
  <1>3. RemovedInv'  BY JobTyped DEF TypeOK, RemovedInv, JobInv, Add
  <1>4. UrlInv'  BY JobTyped DEF TypeOK, UrlInv, Add
  <1>5. ContentMatches'  BY JobTyped DEF TypeOK, ContentMatches, JobInv, RemovedInv, Add
  <1>6. OneProfilePerUrl'  BY JobTyped DEF TypeOK, OneProfilePerUrl, UrlInv, Add
  <1>7. ActiveExists'  BY JobTyped DEF TypeOK, ActiveExists, JobInv
  <1> QED  BY <1>1, <1>2, <1>3, <1>4, <1>5, <1>6, <1>7

LEMMA ActivateInv ==
  ASSUME TypeOK, ProfInv, NEW c \in Caller, NEW ok \in BOOLEAN, Activate(c, ok)
  PROVE  TypeOK' /\ ProfInv'
  <1> USE ProfilesAssumption DEF Activate, Return, Go, ProfInv, Row
  <1>1. TypeOK'  BY JobTyped DEF TypeOK, Job
  <1>2. JobInv'  BY JobTyped DEF TypeOK, JobInv, Add
  <1>3. RemovedInv'  BY JobTyped DEF TypeOK, RemovedInv, JobInv, Add
  <1>4. UrlInv'  BY JobTyped DEF TypeOK, UrlInv, Add
  <1>5. ContentMatches'  BY JobTyped DEF TypeOK, ContentMatches, JobInv, RemovedInv, Add
  <1>6. OneProfilePerUrl'  BY JobTyped DEF TypeOK, OneProfilePerUrl, UrlInv, Add
  <1>7. ActiveExists'  BY JobTyped DEF TypeOK, ActiveExists, JobInv
  <1> QED  BY <1>1, <1>2, <1>3, <1>4, <1>5, <1>6, <1>7

LEMMA DeleteProfileInv ==
  ASSUME TypeOK, ProfInv, NEW c \in Caller, NEW i \in Id, DeleteProfile(c, i)
  PROVE  TypeOK' /\ ProfInv'
  <1> USE ProfilesAssumption DEF DeleteProfile, Nameable, Go, ProfInv, Row
  <1>0. [id |-> i, url |-> NoUrl, mark |-> FALSE] \in Job
    BY DEF TypeOK, Job
  <1>1. TypeOK'  BY <1>0 DEF TypeOK
  <1>2. JobInv'  BY JobTyped DEF TypeOK, JobInv, Add
  <1>3. RemovedInv'  BY JobTyped DEF TypeOK, RemovedInv, JobInv, Add
  <1>4. UrlInv'  BY JobTyped DEF TypeOK, UrlInv, Add
  <1>5. ContentMatches'  BY JobTyped DEF TypeOK, ContentMatches, JobInv, RemovedInv, Add
  <1>6. OneProfilePerUrl'  BY JobTyped DEF TypeOK, OneProfilePerUrl, UrlInv, Add
  <1>7. ActiveExists'  BY JobTyped DEF TypeOK, ActiveExists, JobInv
  <1> QED  BY <1>1, <1>2, <1>3, <1>4, <1>5, <1>6, <1>7

\* From here on the profile may have lost its file.
LEMMA RemoveContentInv ==
  ASSUME TypeOK, ProfInv, NEW c \in Caller, NEW ok \in BOOLEAN, RemoveContent(c, ok)
  PROVE  TypeOK' /\ ProfInv'
  <1> USE ProfilesAssumption DEF RemoveContent, Advance, ProfInv, Row
  <1>1. TypeOK'  BY JobTyped DEF TypeOK, Job
  <1>2. JobInv'  BY JobTyped DEF TypeOK, JobInv, Add
  <1>3. RemovedInv'  BY JobTyped DEF TypeOK, RemovedInv, JobInv, Add
  <1>4. UrlInv'  BY JobTyped DEF TypeOK, UrlInv, Add
  <1>5. ContentMatches'  BY JobTyped DEF TypeOK, ContentMatches, JobInv, RemovedInv, Add
  <1>6. OneProfilePerUrl'  BY JobTyped DEF TypeOK, OneProfilePerUrl, UrlInv, Add
  <1>7. ActiveExists'  BY JobTyped DEF TypeOK, ActiveExists, JobInv
  <1> QED  BY <1>1, <1>2, <1>3, <1>4, <1>5, <1>6, <1>7

\* The file is gone or was counted as left behind.
LEMMA DeleteRowInv ==
  ASSUME TypeOK, ProfInv, NEW c \in Caller, NEW ok \in BOOLEAN, DeleteRow(c, ok)
  PROVE  TypeOK' /\ ProfInv'
  <1> USE ProfilesAssumption DEF DeleteRow, Return, Go, ProfInv, Row
  <1>1. TypeOK'  BY JobTyped DEF TypeOK, Job
  <1>2. JobInv'  BY JobTyped DEF TypeOK, JobInv, Add
  <1>3. RemovedInv'  BY JobTyped DEF TypeOK, RemovedInv, JobInv, Add
  <1>4. UrlInv'  BY JobTyped DEF TypeOK, UrlInv, Add
  <1>5. ContentMatches'  BY JobTyped DEF TypeOK, ContentMatches, JobInv, RemovedInv, Add
  <1>6. OneProfilePerUrl'  BY JobTyped DEF TypeOK, OneProfilePerUrl, UrlInv, Add
  <1>7. ActiveExists'  BY JobTyped DEF TypeOK, ActiveExists, JobInv
  <1> QED  BY <1>1, <1>2, <1>3, <1>4, <1>5, <1>6, <1>7

\* A row that was not there is counted, and its id is no add's.
LEMMA UpdateProfileInv ==
  ASSUME TypeOK, ProfInv, NEW c \in Caller, NEW i \in Id, NEW u \in Url \cup {NoUrl}, UpdateProfile(c, i, u)
  PROVE  TypeOK' /\ ProfInv'
  <1> USE ProfilesAssumption DEF UpdateProfile, Nameable, ProfInv, Row
  <1>0. exclusive' => exclusive /\ rows' = rows
    <2>1. exclusive' => exclusive /\ rows[i] = u  BY Zenon
    <2>2. rows[i] = u => rows' = rows  BY DEF TypeOK
    <2> QED  BY <2>1, <2>2
  <1>1. TypeOK'  BY JobTyped DEF TypeOK, Job
  <1>2. JobInv'  BY JobTyped DEF TypeOK, JobInv, Add
  <1>3. RemovedInv'  BY JobTyped DEF TypeOK, RemovedInv, JobInv, Add
  <1>4. UrlInv'  BY <1>0 DEF UrlInv
  <1>5. ContentMatches'  BY JobTyped DEF TypeOK, ContentMatches, JobInv, RemovedInv, Add
  <1>6. OneProfilePerUrl'  BY <1>0 DEF OneProfilePerUrl
  <1>7. ActiveExists'  BY JobTyped DEF TypeOK, ActiveExists, JobInv
  <1> QED  BY <1>1, <1>2, <1>3, <1>4, <1>5, <1>6, <1>7

\* The adds that were about to insert leave their files behind.
LEMMA CrashInv ==
  ASSUME TypeOK, ProfInv, Crash
  PROVE  TypeOK' /\ ProfInv'
  <1> USE ProfilesAssumption DEF Crash, ProfInv, Row
  <1>1. TypeOK'
    <2>1. abandoned' \in SUBSET Id  BY DEF TypeOK
    <2>2. \A c \in Caller : (pc'[c] = "idle") = (job'[c] = None)  OBVIOUS
    <2> QED  BY <2>1, <2>2 DEF TypeOK
  <1>2. JobInv'  BY JobTyped DEF TypeOK, JobInv, Add
  <1>3. RemovedInv'  BY JobTyped DEF TypeOK, RemovedInv, JobInv, Add
  <1>4. UrlInv'  BY JobTyped DEF TypeOK, UrlInv, Add
  <1>5. ContentMatches'  BY JobTyped DEF TypeOK, ContentMatches, JobInv, RemovedInv, Add
  <1>6. OneProfilePerUrl'  BY JobTyped DEF TypeOK, OneProfilePerUrl, UrlInv, Add
  <1>7. ActiveExists'  BY JobTyped DEF TypeOK, ActiveExists, JobInv
  <1> QED  BY <1>1, <1>2, <1>3, <1>4, <1>5, <1>6, <1>7

LEMMA StutterInv ==
  ASSUME TypeOK, ProfInv, UNCHANGED vars
  PROVE  TypeOK' /\ ProfInv'
  BY DEF vars, TypeOK, ProfInv, JobInv, RemovedInv, UrlInv, ContentMatches,
         OneProfilePerUrl, ActiveExists, Row

LEMMA StepInv ==
  ASSUME TypeOK, ProfInv, [Next]_vars
  PROVE  TypeOK' /\ ProfInv'
  <1>1. CASE Crash  BY <1>1, CrashInv
  <1>2. ASSUME NEW c \in Caller, Step(c)  PROVE TypeOK' /\ ProfInv'
    BY <1>2, AddByUrlInv, DownloadInv, AddByContentInv, ContentFailsInv, UpdateContentInv,
       InsertInv, SetActiveProfileInv, ActivateInv, DeleteProfileInv, RemoveContentInv,
       DeleteRowInv, UpdateProfileInv
       DEF Step
  <1>3. CASE UNCHANGED vars  BY <1>3, StutterInv
  <1> QED  BY <1>1, <1>2, <1>3 DEF Next

LEMMA Always == Spec => [](TypeOK /\ ProfInv)
  BY InitInv, StepInv, PTL DEF Spec

-----------------------------------------------------------------------------
\* The repository's state keeps its types.
THEOREM ProfilesTyped == Spec => []TypeOK
  BY Always, PTL

\* Rows and content files match but for deletions that have begun, rows that
\* only an update wrote and failures that were counted (AddByUrl,
\* AddByContent, DeleteById, UpdateProfile).
THEOREM ProfilesContentMatches == Spec => []ContentMatches
  BY Always, PTL DEF ProfInv

\* A URL has one profile while its adds do not overlap (AddByUrl).
THEOREM ProfilesOnePerUrl == Spec => []OneProfilePerUrl
  BY Always, PTL DEF ProfInv

\* The active profile dangles only after a deletion (SetActiveProfile).
THEOREM ProfilesActiveExists == Spec => []ActiveExists
  BY Always, PTL DEF ProfInv
=============================================================================
