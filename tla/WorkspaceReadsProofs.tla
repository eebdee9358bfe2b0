------------------------- MODULE WorkspaceReadsProofs -------------------------
(***************************************************************************)
(* The promises of the reads, for any number of readers and of requests    *)
(* that write between their statements.                                    *)
(*                                                                         *)
(* A reader keeps ids, and the rows they name may be gone, but an id is    *)
(* never given to another row, and a row never changes its workspace nor a *)
(* workspace its owner (Steady): what a reader knew of the owners of its   *)
(* ids when it read them, it knows when it answers.                        *)
(***************************************************************************)
EXTENDS WorkspaceReadsProperties, WorkspacesProofs

Overviewing == {"main", "workspaces", "both", "foldersLeft", "workflowsLeft"}

\* The questions whose reader may be at a point.
QuestionsAt(point) ==
    CASE point \in {"home"} \cup Overviewing      -> {"overview"}
      [] point \in {"all", "countFolders"}        -> {"listWorkspaces"}
      [] point = "one"                            -> {"getWorkspace"}
      [] point = "folders"                        -> {"listFolders"}
      [] point = "default"                        -> {"getDefaultFolder"}
      [] point = "filed"                          -> {"listFiled"}
      [] point \in {"countWorkflows", "countVariables", "countCredentials"} ->
            {"listFolders", "listWorkspaces"}
      [] point = "answered"                       -> AllReadOps
      [] OTHER                                    -> {}

Seen ==
    [home : Ids \cup {Null}, main : Ids \cup {Null}, workspaces : SUBSET Ids,
     folders : SUBSET Ids, workflows : SUBSET Ids, variables : SUBSET Ids,
     credentials : SUBSET Ids]

ReadersTyped ==
    /\ DOMAIN at = Readers /\ DOMAIN query = Readers
    /\ view \in [Readers -> Seen]
    /\ before \in [Readers -> SUBSET Ids]

\* No row will have one of these ids that has not had it already.
Past(ids) == \A id \in ids : id[1] \in Requests => pc[id[1]] = "done"

OwnWorkspace(w, user) == w \in Kept(rows, "workspace") /\ rows[w].user = user

\* Of these ids, those that still name a row name one of the user's.
OwnRows(ids, user) == \A id \in ids \cap DOMAIN rows : OwnerIn(rows, id) = user

\* Every row of the table that is the user's, and was there at the beginning.
HasAll(ids, d, table) ==
    \A id \in before[d] \cap Kept(rows, table) :
        OwnerIn(rows, id) = query[d].user => id \in ids

\* What an overview that is at a point has found, in v.
OverviewOf(d, point, v) ==
    LET known == v.home # Null IN
    /\ \A id \in before[d] \cap DOMAIN rows :
         rows[id].table # "workspace" => rows[id].workspace \in before[d]
    /\ point = "home" => v.main = Null
    /\ point \in Overviewing => known
    /\ known => OwnWorkspace(v.home, query[d].user)
    /\ v.main # Null => v.main \in Kept(rows, "folder") /\ rows[v.main].workspace = v.home
    /\ known /\ point \in {"both", "foldersLeft", "workflowsLeft", "answered"} =>
         v.home \in v.workspaces /\ HasAll(v.workspaces, d, "workspace")
    /\ known /\ point \in {"workflowsLeft", "answered"} =>
         (v.main # Null => v.main \in v.folders) /\ HasAll(v.folders, d, "folder")
    /\ known /\ point \in {"foldersLeft", "answered"} => HasAll(v.workflows, d, "workflow")

OverviewSound(d) == OverviewOf(d, at[d], view[d])

\* What a request for one workspace, or one folder, was admitted to.
AdmittedTo(d) ==
    LET q == query[d] IN
    /\ q.op \in {"getWorkspace", "listFolders", "listFiled"} => OwnWorkspace(q.workspace, q.user)
    /\ q.op = "listFiled" =>
         q.folder \in Kept(rows, "folder") /\ rows[q.folder].workspace = q.workspace

ReaderSound(d) ==
    /\ at[d] = "idle" => view[d] = Nothing
    /\ at[d] \notin {"idle", "missing"} =>
         /\ query[d].op \in QuestionsAt(at[d])
         /\ Past(Shown(d)) /\ Past(before[d])
         /\ query[d].op # "listWorkspaces" => OwnRows(Shown(d), query[d].user)
         /\ AdmittedTo(d)
         /\ query[d].op = "overview" => OverviewSound(d)

ReadersInv == ReadersTyped /\ \A d \in Readers : ReaderSound(d)

-----------------------------------------------------------------------------
(* What the tables say of ids *)

LEMMA RowsArePast == ASSUME TablesInv PROVE Past(DOMAIN rows)
<1> SUFFICES ASSUME NEW id \in DOMAIN rows, id[1] \in Requests PROVE pc[id[1]] = "done"
  BY DEF Past
<1>1. id \in Ids /\ id[2] \in Tables /\ id = <<id[1], id[2]>>
  BY DEF TablesInv, Typed, Ids
<1> QED
  BY <1>1 DEF TablesInv, Exclusive

\* The owner of a row of a workspace.
LEMMA OwnersAre ==
    ASSUME TablesInv, NEW id \in DOMAIN rows
    PROVE  /\ rows[id].table = "workspace" => OwnerIn(rows, id) = rows[id].user
           /\ rows[id].table # "workspace" =>
                /\ rows[id].workspace \in Kept(rows, "workspace")
                /\ OwnerIn(rows, id) = rows[rows[id].workspace].user
BY DEF TablesInv, Linked, LinkedRow, OwnerIn

LEMMA OwnersStay ==
    ASSUME TablesInv, TablesInv', Steady, NEW id \in DOMAIN rows \cap DOMAIN rows'
    PROVE  OwnerIn(rows', id) = OwnerIn(rows, id)
<1>1. /\ rows'[id].table = rows[id].table /\ rows'[id].user = rows[id].user
      /\ rows'[id].workspace = rows[id].workspace
  BY DEF Steady
<1>2. CASE rows[id].table = "workspace"
  BY <1>1, <1>2 DEF OwnerIn
<1>3. CASE rows[id].table # "workspace"
  <2>1. rows[id].workspace \in DOMAIN rows /\ rows[rows[id].workspace].table = "workspace"
    BY <1>3, OwnersAre DEF Kept
  <2>2. rows'[rows[id].workspace].user = rows[rows[id].workspace].user
    BY <2>1 DEF Steady
  <2> QED
    BY <1>1, <1>3, <2>2 DEF OwnerIn
<1> QED
  BY <1>2, <1>3

\* An id that was read names the same row, or none.
LEMMA PastStays ==
    ASSUME Steady, NEW ids, Past(ids)
    PROVE  Past(ids)' /\ ids \cap DOMAIN rows' \subseteq DOMAIN rows
BY DEF Past, Steady

LEMMA OwnRowsStay ==
    ASSUME TablesInv, TablesInv', Steady, NEW ids, Past(ids), NEW user, OwnRows(ids, user)
    PROVE  OwnRows(ids, user)'
BY PastStays, OwnersStay DEF OwnRows

LEMMA AnchorsStay ==
    ASSUME Steady
    PROVE  /\ \A w, user : OwnWorkspace(w, user) => OwnWorkspace(w, user)'
           /\ \A f \in Kept(rows, "folder") :
                f \in Kept(rows, "folder")' /\ rows'[f].workspace = rows[f].workspace
BY DEF Steady, OwnWorkspace, Kept

LEMMA HasAllStays ==
    ASSUME TablesInv, TablesInv', Steady, NEW d, Past(before[d]), NEW ids, NEW table,
           HasAll(ids, d, table), UNCHANGED readVars
    PROVE  HasAll(ids, d, table)'
<1> SUFFICES ASSUME NEW id \in before[d] \cap Kept(rows', table),
                    OwnerIn(rows', id) = query[d].user
             PROVE  id \in ids
  BY DEF HasAll, readVars
<1>1. id \in DOMAIN rows \cap DOMAIN rows' /\ rows'[id].table = table
  BY PastStays DEF Kept
<1>2. rows[id].table = table /\ OwnerIn(rows, id) = query[d].user
  BY <1>1, OwnersStay DEF Steady
<1> QED
  BY <1>1, <1>2 DEF HasAll, Kept

-----------------------------------------------------------------------------
(* A write *)

LEMMA OverviewStays ==
    ASSUME TablesInv, TablesInv', Steady, UNCHANGED readVars, NEW d, Past(before[d]),
           OverviewSound(d)
    PROVE  OverviewSound(d)'
<1>1. at' = at /\ query' = query /\ view' = view /\ before' = before
  BY DEF readVars
<1>2. \A id \in before[d] \cap DOMAIN rows' :
         rows'[id].table # "workspace" => rows'[id].workspace \in before[d]
  BY PastStays DEF OverviewSound, OverviewOf, Steady
<1>3. view[d].home # Null => OwnWorkspace(view[d].home, query[d].user)'
  BY <1>1, AnchorsStay DEF OverviewSound, OverviewOf
<1>4. view[d].main # Null =>
         view[d].main \in Kept(rows', "folder") /\ rows'[view[d].main].workspace = view[d].home
  BY AnchorsStay DEF OverviewSound, OverviewOf
<1>5. \A ids, table : HasAll(ids, d, table) => HasAll(ids, d, table)'
  BY HasAllStays
<1> HIDE DEF HasAll, OwnWorkspace
<1> QED
  BY <1>1, <1>2, <1>3, <1>4, <1>5 DEF OverviewSound, OverviewOf

LEMMA WriteReader ==
    ASSUME TablesInv, TablesInv', Steady, UNCHANGED readVars, NEW d, ReaderSound(d)
    PROVE  ReaderSound(d)'
<1>1. at' = at /\ query' = query /\ view' = view /\ before' = before
  BY DEF readVars
<1>2. Shown(d)' = Shown(d)
  BY <1>1 DEF Shown
<1>3. CASE at[d] \in {"idle", "missing"}
  BY <1>1, <1>3 DEF ReaderSound, Nothing
<1>4. CASE at[d] \notin {"idle", "missing"}
  <2>1. /\ query[d].op \in QuestionsAt(at[d]) /\ Past(Shown(d)) /\ Past(before[d])
        /\ query[d].op # "listWorkspaces" => OwnRows(Shown(d), query[d].user)
        /\ AdmittedTo(d)
        /\ query[d].op = "overview" => OverviewSound(d)
    BY <1>4 DEF ReaderSound
  <2>2. Past(Shown(d))' /\ Past(before[d])'
    BY <1>1, <1>2, <2>1, PastStays
  <2>3. query[d].op # "listWorkspaces" => OwnRows(Shown(d), query[d].user)'
    BY <1>1, <1>2, <2>1, OwnRowsStay
  <2>4. AdmittedTo(d)'
    BY <1>1, <2>1, AnchorsStay DEF AdmittedTo
  <2>5. query[d].op = "overview" => OverviewSound(d)'
    BY <2>1, OverviewStays
  <2>6. query'[d].op \in QuestionsAt(at'[d])
    BY <1>1, <2>1
  <2> QED
    BY <1>1, <1>4, <2>2, <2>3, <2>4, <2>5, <2>6 DEF ReaderSound
<1> QED
  BY <1>3, <1>4

LEMMA WriteReaders ==
    ASSUME TablesInv, TablesInv', Steady, UNCHANGED readVars, ReadersInv
    PROVE  ReadersInv'
<1>1. ReadersTyped'
  BY DEF ReadersInv, ReadersTyped, readVars
<1> QED
  BY <1>1, WriteReader DEF ReadersInv

-----------------------------------------------------------------------------
(* A question *)

\* What others read stays as it was.
LEMMA OthersRead ==
    ASSUME UNCHANGED vars, NEW e, ReaderSound(e), at'[e] = at[e], query'[e] = query[e],
           view'[e] = view[e], before'[e] = before[e]
    PROVE  ReaderSound(e)'
<1>1. rows' = rows /\ pc' = pc
  BY DEF vars
<1>2. Shown(e)' = Shown(e)
  BY DEF Shown
<1>3. \A ids : Past(ids)' = Past(ids)
  BY <1>1 DEF Past
<1>4. \A ids, user : OwnRows(ids, user)' = OwnRows(ids, user)
  BY <1>1 DEF OwnRows, OwnerIn
<1>5. AdmittedTo(e)' = AdmittedTo(e)
  BY <1>1 DEF AdmittedTo, OwnWorkspace, Kept
<1>6. OverviewSound(e)' = OverviewSound(e)
  BY <1>1 DEF OverviewSound, OverviewOf, OwnWorkspace, Kept, HasAll, OwnerIn
<1> QED
  BY <1>2, <1>3, <1>4, <1>5, <1>6 DEF ReaderSound, Nothing

LEMMA AskedReaders ==
    ASSUME TablesInv, ReadersInv, UNCHANGED vars, NEW d \in Readers, NEW q, NEW point,
           NEW admitted \in BOOLEAN, Ask(d, q, admitted, point),
           point \in {"home", "all", "one", "folders", "default", "filed"},
           q.op \in QuestionsAt(point),
           admitted => /\ q.op \in {"getWorkspace", "listFolders", "listFiled"} =>
                            OwnWorkspace(q.workspace, q.user)
                       /\ q.op = "listFiled" =>
                            q.folder \in Kept(rows, "folder") /\ rows[q.folder].workspace = q.workspace
    PROVE  ReadersInv'
<1>1. /\ ReadersTyped /\ at[d] = "idle" /\ view[d] = Nothing
      /\ DOMAIN rows \subseteq Ids /\ rows' = rows /\ pc' = pc
  BY DEF ReadersInv, ReaderSound, Ask, IsAt, TablesInv, Typed, vars
<1>2. /\ query'[d] = q /\ before'[d] = DOMAIN rows /\ view' = view
      /\ at'[d] = IF admitted THEN point ELSE "missing"
      /\ \A e \in Readers \ {d} : at'[e] = at[e] /\ query'[e] = query[e] /\ before'[e] = before[e]
      /\ DOMAIN at' = Readers /\ DOMAIN query' = Readers
  BY <1>1 DEF Ask, ReadersTyped
<1>3. before' \in [Readers -> SUBSET Ids]
  BY <1>1 DEF Ask, ReadersTyped
<1>4. ReadersTyped'
  BY <1>1, <1>2, <1>3 DEF ReadersTyped
<1>5. ASSUME NEW e \in Readers \ {d} PROVE ReaderSound(e)'
  BY <1>2, OthersRead DEF ReadersInv
<1>6. ReaderSound(d)'
  <2>1. CASE ~admitted
    BY <1>2, <2>1 DEF ReaderSound
  <2>2. CASE admitted
    <3>1. Shown(d)' = {} /\ view'[d] = Nothing
      BY <1>1, <1>2 DEF Shown, Nothing
    <3>2. Past(Shown(d))' /\ Past(before[d])' /\ OwnRows(Shown(d), query[d].user)'
      BY <1>1, <1>2, <3>1, RowsArePast DEF Past, OwnRows
    <3>3. AdmittedTo(d)'
      BY <1>1, <1>2, <2>2 DEF AdmittedTo, OwnWorkspace, Kept
    <3>4. q.op = "overview" => OverviewSound(d)'
      <4> SUFFICES ASSUME q.op = "overview" PROVE OverviewSound(d)'
        OBVIOUS
      <4>1. point = "home"
        BY DEF QuestionsAt, AllReadOps, Overviewing
      <4>2. \A id \in DOMAIN rows : rows[id].table # "workspace" => rows[id].workspace \in DOMAIN rows
        BY OwnersAre DEF Kept
      <4> QED
        BY <1>1, <1>2, <2>2, <3>1, <4>1, <4>2 DEF OverviewSound, OverviewOf, Nothing, Overviewing
    <3> QED
      BY <1>2, <2>2, <3>2, <3>3, <3>4 DEF ReaderSound
  <2> QED
    BY <2>1, <2>2
<1> QED
  BY <1>4, <1>5, <1>6 DEF ReadersInv

LEMMA AskReaders ==
    ASSUME TablesInv, ReadersInv, UNCHANGED vars, NEW d \in Readers, AskAnything(d)
    PROVE  ReadersInv'
<1>1. PICK u \in Users, op \in ReadOps :
        \/ op = "overview" /\ Ask(d, Question(op, u, Null, Null), TRUE, "home")
        \/ op = "listWorkspaces" /\ Ask(d, Question(op, u, Null, Null), TRUE, "all")
        \/ /\ op \in {"getWorkspace", "listFolders", "getDefaultFolder"}
           /\ \E w \in WorkspaceIds :
                Ask(d, Question(op, u, w, Null), Owned(rows, w, u),
                    CASE op = "getWorkspace" -> "one"
                      [] op = "listFolders" -> "folders"
                      [] op = "getDefaultFolder" -> "default")
        \/ /\ op = "listFiled"
           /\ \E w \in WorkspaceIds, f \in FolderIds :
                Ask(d, Question(op, u, w, f), Reachable(rows, w, f, u), "filed")
  BY DEF AskAnything
<1> USE DEF Question, QuestionsAt, Overviewing
<1>2. CASE op = "overview" /\ Ask(d, Question(op, u, Null, Null), TRUE, "home")
  BY <1>2, AskedReaders
<1>3. CASE op = "listWorkspaces" /\ Ask(d, Question(op, u, Null, Null), TRUE, "all")
  BY <1>3, AskedReaders
<1>4. ASSUME NEW w \in WorkspaceIds PROVE Owned(rows, w, u) => OwnWorkspace(w, u)
  BY DEF Owned, OwnWorkspace, WorkspaceIds, Kept
<1>5. ASSUME NEW w \in WorkspaceIds, NEW point,
             op \in {"getWorkspace", "listFolders", "getDefaultFolder"},
             op = "getWorkspace" => point = "one",
             op = "listFolders" => point = "folders",
             op = "getDefaultFolder" => point = "default",
             Ask(d, Question(op, u, w, Null), Owned(rows, w, u), point)
      PROVE  ReadersInv'
  <2>1. Owned(rows, w, u) \in BOOLEAN
    BY DEF Owned
  <2> HIDE DEF Owned
  <2> QED
    BY <1>4, <1>5, <2>1, AskedReaders
<1>6. ASSUME NEW w \in WorkspaceIds, NEW f \in FolderIds, op = "listFiled",
             Ask(d, Question(op, u, w, f), Reachable(rows, w, f, u), "filed")
      PROVE  ReadersInv'
  <2>1. Reachable(rows, w, f, u) \in BOOLEAN
    BY DEF Reachable
  <2>2. Reachable(rows, w, f, u) =>
          OwnWorkspace(w, u) /\ f \in Kept(rows, "folder") /\ rows[f].workspace = w
    BY <1>4 DEF Reachable, FolderIds, Kept
  <2> QED
    BY <1>6, <2>1, <2>2, AskedReaders
<1>7. ASSUME NEW w \in WorkspaceIds, op \in {"getWorkspace", "listFolders", "getDefaultFolder"},
             Ask(d, Question(op, u, w, Null), Owned(rows, w, u),
                 CASE op = "getWorkspace" -> "one"
                   [] op = "listFolders" -> "folders"
                   [] op = "getDefaultFolder" -> "default")
      PROVE  ReadersInv'
  <2> DEFINE point == CASE op = "getWorkspace" -> "one"
                        [] op = "listFolders" -> "folders"
                        [] op = "getDefaultFolder" -> "default"
  <2>1. /\ op = "getWorkspace" => point = "one"
        /\ op = "listFolders" => point = "folders"
        /\ op = "getDefaultFolder" => point = "default"
    OBVIOUS
  <2>2. Ask(d, Question(op, u, w, Null), Owned(rows, w, u), point)
    BY <1>7
  <2> HIDE DEF point
  <2> QED
    BY <1>5, <1>7, <2>1, <2>2
<1> QED
  BY <1>1, <1>2, <1>3, <1>6, <1>7

-----------------------------------------------------------------------------
(* A statement of a reader *)

LEMMA WithinOwn ==
    ASSUME TablesInv, NEW table, table # "workspace", NEW workspaces, NEW user,
           OwnRows(workspaces, user)
    PROVE  OwnRows(InWorkspaces(table, workspaces), user)
<1> SUFFICES ASSUME NEW id \in InWorkspaces(table, workspaces) PROVE OwnerIn(rows, id) = user
  BY DEF OwnRows
<1>1. id \in DOMAIN rows /\ rows[id].table # "workspace" /\ rows[id].workspace \in workspaces
  BY DEF InWorkspaces
<1>2. rows[id].workspace \in Kept(rows, "workspace")
      /\ OwnerIn(rows, id) = rows[rows[id].workspace].user
  BY <1>1, OwnersAre
<1>3. OwnerIn(rows, rows[id].workspace) = rows[rows[id].workspace].user
  BY <1>2 DEF Kept, OwnerIn
<1> QED
  BY <1>1, <1>2, <1>3 DEF OwnRows, Kept

LEMMA FiledOwn ==
    ASSUME TablesInv, NEW table \in Filed, NEW folders, NEW user, OwnRows(folders, user)
    PROVE  OwnRows(InFolders(table, folders), user)
<1> SUFFICES ASSUME NEW id \in InFolders(table, folders) PROVE OwnerIn(rows, id) = user
  BY DEF OwnRows
<1>1. id \in DOMAIN rows /\ rows[id].table \in Filed /\ rows[id].parent \in folders
  BY DEF InFolders
<1>2. /\ rows[id].parent \in Kept(rows, "folder")
      /\ rows[rows[id].parent].workspace = rows[id].workspace
  BY <1>1 DEF TablesInv, Linked, LinkedRow
<1>3. OwnerIn(rows, rows[id].parent) = OwnerIn(rows, id)
  BY <1>1, <1>2 DEF OwnerIn, Kept, Filed
<1> QED
  BY <1>1, <1>2, <1>3 DEF OwnRows, Kept

ShownIn(v) == v.workspaces \cup v.folders \cup v.workflows \cup v.variables \cup v.credentials

\* The answer of a statement keeps what a reader may rely on, if what it adds
\* is there, and is the caller's.
LEMMA SeeReaders ==
    ASSUME TablesInv, ReadersInv, UNCHANGED vars, NEW d \in Readers,
           at[d] \notin {"idle", "missing"}, NEW point, NEW seen \in Seen, See(d, point, seen),
           point # "idle", query[d].op \in QuestionsAt(point),
           NEW new, new \subseteq DOMAIN rows, ShownIn(seen) \subseteq Shown(d) \cup new,
           query[d].op # "listWorkspaces" => OwnRows(new, query[d].user),
           query[d].op = "overview" => OverviewOf(d, point, seen)
    PROVE  ReadersInv'
<1>1. ReadersTyped /\ ReaderSound(d) /\ rows' = rows /\ pc' = pc
  BY DEF ReadersInv, vars
<1>2. /\ at'[d] = point /\ view'[d] = seen /\ query' = query /\ before' = before
      /\ \A e \in Readers \ {d} : at'[e] = at[e] /\ view'[e] = view[e]
      /\ DOMAIN at' = Readers /\ view' \in [Readers -> Seen]
  BY <1>1 DEF See, ReadersTyped
<1>3. ReadersTyped'
  BY <1>1, <1>2 DEF ReadersTyped
<1>4. ASSUME NEW e \in Readers \ {d} PROVE ReaderSound(e)'
  BY <1>2, OthersRead DEF ReadersInv
<1>5. Shown(d)' = ShownIn(seen)
  BY <1>2 DEF Shown, ShownIn
<1>6. Past(Shown(d))' /\ Past(before[d])'
  <2>1. Past(Shown(d) \cup new) /\ Past(before[d])
    BY <1>1, RowsArePast DEF ReaderSound, Past
  <2> QED
    BY <1>1, <1>2, <1>5, <2>1 DEF Past
<1>7. query[d].op # "listWorkspaces" => OwnRows(Shown(d), query[d].user)'
  BY <1>1, <1>2, <1>5 DEF ReaderSound, OwnRows, OwnerIn
<1>8. AdmittedTo(d)'
  BY <1>1, <1>2 DEF ReaderSound, AdmittedTo, OwnWorkspace, Kept
<1>9. query[d].op = "overview" => OverviewSound(d)'
  BY <1>1, <1>2 DEF OverviewSound, OverviewOf, HasAll, OwnWorkspace, Kept, OwnerIn
<1>10. ReaderSound(d)'
  BY <1>2, <1>6, <1>7, <1>8, <1>9 DEF ReaderSound
<1> QED
  BY <1>3, <1>4, <1>10 DEF ReadersInv

\* What a reader knows at a point.
LEMMA ReaderAt ==
    ASSUME ReadersInv, NEW d \in Readers, at[d] \notin {"idle", "missing"}
    PROVE  /\ view[d] \in Seen /\ query[d].op \in QuestionsAt(at[d])
           /\ query[d].op # "listWorkspaces" => OwnRows(Shown(d), query[d].user)
           /\ AdmittedTo(d)
           /\ query[d].op = "overview" => OverviewOf(d, at[d], view[d])
BY DEF ReadersInv, ReadersTyped, ReaderSound, OverviewSound

LEMMA TablesShow ==
    ASSUME TablesInv
    PROVE  /\ DOMAIN rows \subseteq Ids /\ WorkspaceIds \subseteq DOMAIN rows
           /\ \A user : WorkspacesOf(user) \subseteq DOMAIN rows
           /\ \A table, workspaces : InWorkspaces(table, workspaces) \subseteq DOMAIN rows
           /\ \A table, folders : InFolders(table, folders) \subseteq DOMAIN rows
BY DEF TablesInv, Typed, WorkspaceIds, WorkspacesOf, InWorkspaces, InFolders

LEMMA FindHomeReads ==
    ASSUME TablesInv, ReadersInv, UNCHANGED vars, NEW d \in Readers, FindHome(d)
    PROVE  ReadersInv'
<1>1. at[d] = "home" /\ query[d].op = "overview"
  BY ReaderAt DEF FindHome, IsAt, QuestionsAt
<1>2. view[d] \in Seen /\ OverviewOf(d, "home", view[d]) /\ view[d].main = Null
  BY <1>1, ReaderAt DEF OverviewOf
<1>3. PICK w \in FirstOf(DefaultWorkspaces(query[d].user)) :
         See(d, IF w = Null THEN "answered" ELSE Then("home"), [view[d] EXCEPT !.home = w])
  BY DEF FindHome
<1> DEFINE seen == [view[d] EXCEPT !.home = w]
           point == IF w = Null THEN "answered" ELSE "main"
<1>4. w # Null => OwnWorkspace(w, query[d].user)
  BY DEF FirstOf, DefaultWorkspaces, OwnWorkspace, Kept
<1>5. seen \in Seen /\ seen.home = w /\ seen.main = Null /\ ShownIn(seen) = Shown(d)
  BY <1>2, <1>4, TablesShow DEF Seen, ShownIn, Shown, OwnWorkspace, Kept
<1>6. See(d, point, seen) /\ point \in {"answered", "main"}
  BY <1>3 DEF Then
<1>7. OverviewOf(d, point, seen)
  BY <1>2, <1>4, <1>5 DEF OverviewOf, Overviewing
<1>8. query[d].op \in QuestionsAt(point)
  BY <1>1 DEF QuestionsAt, Overviewing, AllReadOps
<1> HIDE DEF seen, point
<1>9. OwnRows({}, query[d].user)
  BY DEF OwnRows
<1> QED
  BY <1>1, <1>5, <1>6, <1>7, <1>8, <1>9, SeeReaders

LEMMA FindMainReads ==
    ASSUME TablesInv, ReadersInv, UNCHANGED vars, NEW d \in Readers, FindMain(d)
    PROVE  ReadersInv'
<1>1. at[d] = "main" /\ query[d].op = "overview"
  BY ReaderAt DEF FindMain, IsAt, QuestionsAt, Overviewing
<1>2. view[d] \in Seen /\ OverviewOf(d, "main", view[d])
  BY <1>1, ReaderAt
<1>3. PICK f \in FirstOf(DefaultFolders(view[d].home)) :
         See(d, "workspaces", [view[d] EXCEPT !.main = f])
  BY DEF FindMain, Then
<1> DEFINE seen == [view[d] EXCEPT !.main = f]
<1>4. f # Null => f \in Kept(rows, "folder") /\ rows[f].workspace = view[d].home
  BY DEF FirstOf, DefaultFolders, InWorkspaces, Kept
<1>5. /\ seen \in Seen /\ seen.main = f /\ seen.home = view[d].home
      /\ ShownIn(seen) = Shown(d)
  BY <1>2, <1>4, TablesShow DEF Seen, ShownIn, Shown, Kept
<1>6. OverviewOf(d, "workspaces", seen)
  BY <1>2, <1>4, <1>5 DEF OverviewOf, Overviewing
<1>7. query[d].op \in QuestionsAt("workspaces")
  BY <1>1 DEF QuestionsAt, Overviewing
<1> HIDE DEF seen
<1>8. See(d, "workspaces", seen) /\ OwnRows({}, query[d].user)
  BY <1>3 DEF OwnRows, seen
<1> QED
  BY <1>1, <1>5, <1>6, <1>7, <1>8, SeeReaders

LEMMA FindWorkspacesReads ==
    ASSUME TablesInv, ReadersInv, UNCHANGED vars, NEW d \in Readers, FindWorkspaces(d)
    PROVE  ReadersInv'
<1>1. at[d] = "workspaces" /\ query[d].op = "overview"
  BY ReaderAt DEF FindWorkspaces, IsAt, QuestionsAt, Overviewing
<1>2. view[d] \in Seen /\ OverviewOf(d, "workspaces", view[d])
  BY <1>1, ReaderAt
<1> DEFINE own == WorkspacesOf(query[d].user)
           seen == [view[d] EXCEPT !.workspaces = own]
<1>3. See(d, "both", seen)
  BY DEF FindWorkspaces, Then
<1>4. own \subseteq DOMAIN rows /\ own \subseteq Ids /\ OwnRows(own, query[d].user)
  BY TablesShow DEF WorkspacesOf, OwnRows, OwnerIn
<1>5. HasAll(own, d, "workspace")
  BY DEF HasAll, WorkspacesOf, Kept, OwnerIn
<1>6. view[d].home # Null => view[d].home \in own
  BY <1>2 DEF OverviewOf, OwnWorkspace, Kept, WorkspacesOf
<1> HIDE DEF own
<1>7. /\ seen \in Seen /\ seen.main = view[d].main /\ seen.home = view[d].home
      /\ seen.workspaces = own /\ ShownIn(seen) \subseteq Shown(d) \cup own
  BY <1>2, <1>4 DEF Seen, ShownIn, Shown
<1>8. OverviewOf(d, "both", seen)
  BY <1>2, <1>5, <1>6, <1>7 DEF OverviewOf, Overviewing
<1>9. query[d].op \in QuestionsAt("both")
  BY <1>1 DEF QuestionsAt, Overviewing
<1> HIDE DEF seen
<1> QED
  BY <1>1, <1>3, <1>4, <1>7, <1>8, <1>9, SeeReaders

\* A list of the rows of a table in the workspaces of an overview.
LEMMA ListsAreWhole ==
    ASSUME TablesInv, NEW d, NEW point, NEW v, OverviewOf(d, point, v), v.home # Null,
           point \in {"both", "foldersLeft", "workflowsLeft"}, NEW table, table # "workspace"
    PROVE  HasAll(InWorkspaces(table, v.workspaces), d, table)
<1> SUFFICES ASSUME NEW id \in before[d] \cap Kept(rows, table), OwnerIn(rows, id) = query[d].user
             PROVE  rows[id].workspace \in v.workspaces
  BY DEF HasAll, InWorkspaces, Kept
<1>1. /\ rows[id].workspace \in Kept(rows, "workspace")
      /\ rows[rows[id].workspace].user = query[d].user
  BY OwnersAre DEF Kept
<1>2. rows[id].workspace \in before[d]
  BY DEF OverviewOf, Kept
<1>3. OwnerIn(rows, rows[id].workspace) = query[d].user
  BY <1>1 DEF OwnerIn, Kept
<1> QED
  BY <1>1, <1>2, <1>3 DEF OverviewOf, HasAll

LEMMA FindFoldersReads ==
    ASSUME TablesInv, ReadersInv, UNCHANGED vars, NEW d \in Readers, FindFoldersOf(d)
    PROVE  ReadersInv'
<1>1. at[d] \in {"both", "foldersLeft"} /\ query[d].op = "overview"
  BY ReaderAt DEF FindFoldersOf, QuestionsAt, Overviewing
<1>2. /\ view[d] \in Seen /\ OverviewOf(d, at[d], view[d]) /\ view[d].home # Null
      /\ OwnRows(Shown(d), query[d].user)
  BY <1>1, ReaderAt DEF OverviewOf, Overviewing
<1> DEFINE list == InWorkspaces("folder", view[d].workspaces)
           seen == [view[d] EXCEPT !.folders = list]
           point == IF at[d] = "both" THEN "workflowsLeft" ELSE "answered"
<1>3. See(d, point, seen)
  BY DEF FindFoldersOf, Listed, IsAt, Then
<1>4. list \subseteq DOMAIN rows /\ list \subseteq Ids
  BY TablesShow
<1>5. OwnRows(view[d].workspaces, query[d].user)
  BY <1>2 DEF OwnRows, Shown
<1>6. OwnRows(list, query[d].user)
  BY <1>5, WithinOwn
<1>7. HasAll(list, d, "folder")
  BY <1>1, <1>2, ListsAreWhole
<1>8. view[d].main # Null => view[d].main \in list
  BY <1>1, <1>2 DEF OverviewOf, InWorkspaces, Kept
<1> HIDE DEF list
<1>9. /\ seen \in Seen /\ seen.main = view[d].main /\ seen.home = view[d].home
      /\ seen.workspaces = view[d].workspaces /\ seen.folders = list
      /\ seen.workflows = view[d].workflows
      /\ ShownIn(seen) \subseteq Shown(d) \cup list
  BY <1>2, <1>4 DEF Seen, ShownIn, Shown
<1>10. OverviewOf(d, point, seen)
  BY <1>1, <1>2, <1>7, <1>8, <1>9 DEF OverviewOf, Overviewing
<1>11. point # "idle" /\ query[d].op \in QuestionsAt(point)
  BY <1>1 DEF QuestionsAt, Overviewing, AllReadOps
<1> HIDE DEF seen, point
<1> QED
  BY <1>1, <1>3, <1>4, <1>6, <1>9, <1>10, <1>11, SeeReaders

LEMMA FindWorkflowsReads ==
    ASSUME TablesInv, ReadersInv, UNCHANGED vars, NEW d \in Readers, FindWorkflowsOf(d)
    PROVE  ReadersInv'
<1>1. at[d] \in {"both", "workflowsLeft"} /\ query[d].op = "overview"
  BY ReaderAt DEF FindWorkflowsOf, QuestionsAt, Overviewing
<1>2. /\ view[d] \in Seen /\ OverviewOf(d, at[d], view[d]) /\ view[d].home # Null
      /\ OwnRows(Shown(d), query[d].user)
  BY <1>1, ReaderAt DEF OverviewOf, Overviewing
<1> DEFINE list == InWorkspaces("workflow", view[d].workspaces)
           seen == [view[d] EXCEPT !.workflows = list]
           point == IF at[d] = "both" THEN "foldersLeft" ELSE "answered"
<1>3. See(d, point, seen)
  BY DEF FindWorkflowsOf, Listed, IsAt, Then
<1>4. list \subseteq DOMAIN rows /\ list \subseteq Ids
  BY TablesShow
<1>5. OwnRows(view[d].workspaces, query[d].user)
  BY <1>2 DEF OwnRows, Shown
<1>6. OwnRows(list, query[d].user)
  BY <1>5, WithinOwn
<1>7. HasAll(list, d, "workflow")
  BY <1>1, <1>2, ListsAreWhole
<1> HIDE DEF list
<1>8. /\ seen \in Seen /\ seen.main = view[d].main /\ seen.home = view[d].home
      /\ seen.workspaces = view[d].workspaces /\ seen.workflows = list
      /\ seen.folders = view[d].folders
      /\ ShownIn(seen) \subseteq Shown(d) \cup list
  BY <1>2, <1>4 DEF Seen, ShownIn, Shown
<1>9. OverviewOf(d, point, seen)
  BY <1>1, <1>2, <1>7, <1>8 DEF OverviewOf, Overviewing
<1>10. point # "idle" /\ query[d].op \in QuestionsAt(point)
  BY <1>1 DEF QuestionsAt, Overviewing, AllReadOps
<1> HIDE DEF seen, point
<1> QED
  BY <1>1, <1>3, <1>4, <1>6, <1>8, <1>9, <1>10, SeeReaders

\* The lists and counts: one field more is filled, by rows that are there.
LEMMA FieldsFilled ==
    ASSUME NEW v \in Seen, NEW list \in SUBSET Ids
    PROVE  /\ \A seen \in {[v EXCEPT !.workspaces = list], [v EXCEPT !.folders = list],
                           [v EXCEPT !.workflows = list], [v EXCEPT !.variables = list],
                           [v EXCEPT !.credentials = list]} :
                seen \in Seen /\ ShownIn(seen) \subseteq ShownIn(v) \cup list
BY DEF Seen, ShownIn

LEMMA ListReads ==
    ASSUME TablesInv, ReadersInv, UNCHANGED vars, NEW d \in Readers,
           at[d] \notin {"idle", "missing"}, query[d].op # "overview",
           NEW point, point # "idle", query[d].op \in QuestionsAt(point),
           NEW list, list \subseteq DOMAIN rows,
           query[d].op # "listWorkspaces" => OwnRows(list, query[d].user),
           \/ See(d, point, [view[d] EXCEPT !.workspaces = list])
           \/ See(d, point, [view[d] EXCEPT !.folders = list])
           \/ See(d, point, [view[d] EXCEPT !.workflows = list])
           \/ See(d, point, [view[d] EXCEPT !.variables = list])
           \/ See(d, point, [view[d] EXCEPT !.credentials = list])
    PROVE  ReadersInv'
<1>1. view[d] \in Seen /\ ShownIn(view[d]) = Shown(d)
  BY ReaderAt DEF ShownIn, Shown
<1>2. list \in SUBSET Ids
  BY TablesShow
<1>3. PICK seen \in Seen : See(d, point, seen) /\ ShownIn(seen) \subseteq Shown(d) \cup list
  BY <1>1, <1>2, FieldsFilled
<1> QED
  BY <1>3, SeeReaders

LEMMA FindAllReads ==
    ASSUME TablesInv, ReadersInv, UNCHANGED vars, NEW d \in Readers, FindAll(d)
    PROVE  ReadersInv'
<1>1. at[d] = "all" /\ query[d].op = "listWorkspaces"
  BY ReaderAt DEF FindAll, IsAt, QuestionsAt, Overviewing
<1>2. query[d].op \in QuestionsAt("countWorkflows")
  BY <1>1 DEF QuestionsAt, Overviewing
<1> QED
  BY <1>1, <1>2, TablesShow, ListReads DEF FindAll

LEMMA GetWorkspaceReads ==
    ASSUME TablesInv, ReadersInv, UNCHANGED vars, NEW d \in Readers, GetWorkspace(d)
    PROVE  ReadersInv'
<1>1. at[d] = "one" /\ query[d].op = "getWorkspace"
  BY ReaderAt DEF GetWorkspace, IsAt, QuestionsAt, Overviewing
<1>2. OwnWorkspace(query[d].workspace, query[d].user)
  BY <1>1, ReaderAt DEF AdmittedTo
<1> DEFINE list == {query[d].workspace}
<1>3. list \subseteq DOMAIN rows /\ OwnRows(list, query[d].user)
  BY <1>2 DEF OwnWorkspace, Kept, OwnRows, OwnerIn
<1>4. query[d].op \in QuestionsAt("answered")
  BY <1>1 DEF QuestionsAt, Overviewing, AllReadOps
<1>5. See(d, "answered", [view[d] EXCEPT !.workspaces = list])
  BY DEF GetWorkspace
<1> HIDE DEF list
<1> QED
  BY <1>1, <1>3, <1>4, <1>5, ListReads

LEMMA ListFoldersReads ==
    ASSUME TablesInv, ReadersInv, UNCHANGED vars, NEW d \in Readers, ListFolders(d)
    PROVE  ReadersInv'
<1>1. at[d] = "folders" /\ query[d].op = "listFolders"
  BY ReaderAt DEF ListFolders, IsAt, QuestionsAt, Overviewing
<1>2. OwnWorkspace(query[d].workspace, query[d].user)
  BY <1>1, ReaderAt DEF AdmittedTo
<1>3. OwnRows({query[d].workspace}, query[d].user)
  BY <1>2 DEF OwnWorkspace, Kept, OwnRows, OwnerIn
<1> DEFINE list == InWorkspaces("folder", {query[d].workspace})
<1>4. list \subseteq DOMAIN rows /\ OwnRows(list, query[d].user)
  BY <1>3, WithinOwn, TablesShow
<1>5. query[d].op \in QuestionsAt("countWorkflows")
  BY <1>1 DEF QuestionsAt, Overviewing
<1>6. See(d, "countWorkflows", [view[d] EXCEPT !.folders = list])
  BY DEF ListFolders
<1> HIDE DEF list
<1> QED
  BY <1>1, <1>4, <1>5, <1>6, ListReads

LEMMA GetDefaultFolderReads ==
    ASSUME TablesInv, ReadersInv, UNCHANGED vars, NEW d \in Readers, GetDefaultFolder(d)
    PROVE  ReadersInv'
<1>1. at[d] = "default" /\ query[d].op = "getDefaultFolder" /\ view[d] \in Seen
  BY ReaderAt DEF GetDefaultFolder, IsAt, QuestionsAt, Overviewing
<1>2. PICK f \in FirstOf(DefaultFolders(query[d].workspace)) :
         See(d, IF f = Null THEN "missing" ELSE "answered", [view[d] EXCEPT !.main = f])
  BY DEF GetDefaultFolder
<1> DEFINE seen == [view[d] EXCEPT !.main = f]
<1>3. f \in Ids \cup {Null}
  BY TablesShow DEF FirstOf, DefaultFolders, InWorkspaces
<1>4. seen \in Seen /\ ShownIn(seen) = Shown(d)
  BY <1>1, <1>3 DEF Seen, ShownIn, Shown
<1> HIDE DEF seen
<1>5. CASE See(d, "answered", seen)
  <2>1. query[d].op \in QuestionsAt("answered") /\ OwnRows({}, query[d].user)
    BY <1>1 DEF QuestionsAt, Overviewing, AllReadOps, OwnRows
  <2> QED
    BY <1>1, <1>4, <1>5, <2>1, SeeReaders
<1>6. CASE See(d, "missing", seen)
  <2>1. /\ at'[d] = "missing" /\ query' = query /\ before' = before
        /\ \A e \in Readers \ {d} : at'[e] = at[e] /\ view'[e] = view[e]
        /\ ReadersTyped'
    BY <1>4, <1>6 DEF See, ReadersInv, ReadersTyped
  <2>2. ASSUME NEW e \in Readers \ {d} PROVE ReaderSound(e)'
    BY <2>1, OthersRead DEF ReadersInv
  <2>3. ReaderSound(d)'
    BY <2>1 DEF ReaderSound
  <2> QED
    BY <2>1, <2>2, <2>3 DEF ReadersInv
<1> QED
  BY <1>2, <1>5, <1>6 DEF seen

LEMMA ListFiledReads ==
    ASSUME TablesInv, ReadersInv, UNCHANGED vars, NEW d \in Readers,
           ListFolderWorkflows(d) \/ ListFolderVariables(d) \/ ListFolderCredentials(d)
    PROVE  ReadersInv'
<1>1. at[d] = "filed" /\ query[d].op = "listFiled"
  BY ReaderAt DEF ListFolderWorkflows, ListFolderVariables, ListFolderCredentials, IsAt,
                  QuestionsAt, Overviewing
<1>2. /\ OwnWorkspace(query[d].workspace, query[d].user)
      /\ query[d].folder \in Kept(rows, "folder")
      /\ rows[query[d].folder].workspace = query[d].workspace
  BY <1>1, ReaderAt DEF AdmittedTo
<1>3. OwnRows({query[d].folder}, query[d].user)
  BY <1>2 DEF OwnWorkspace, Kept, OwnRows, OwnerIn
<1>4. \A table \in Filed : LET list == InFolders(table, {query[d].folder}) IN
         list \subseteq DOMAIN rows /\ OwnRows(list, query[d].user)
  BY <1>3, FiledOwn, TablesShow
<1>5. query[d].op \in QuestionsAt("answered")
  BY <1>1 DEF QuestionsAt, Overviewing, AllReadOps
<1>6. PICK list : /\ list \subseteq DOMAIN rows /\ OwnRows(list, query[d].user)
                  /\ \/ See(d, "answered", [view[d] EXCEPT !.workflows = list])
                     \/ See(d, "answered", [view[d] EXCEPT !.variables = list])
                     \/ See(d, "answered", [view[d] EXCEPT !.credentials = list])
  BY <1>4 DEF ListFolderWorkflows, ListFolderVariables, ListFolderCredentials, Filed
<1> QED
  BY <1>1, <1>5, <1>6, ListReads

LEMMA CountReads ==
    ASSUME TablesInv, ReadersInv, UNCHANGED vars, NEW d \in Readers,
           CountWorkflows(d) \/ CountVariables(d) \/ CountCredentials(d) \/ CountFolders(d)
    PROVE  ReadersInv'
<1>1. /\ at[d] \in {"countWorkflows", "countVariables", "countCredentials", "countFolders"}
      /\ query[d].op \in {"listFolders", "listWorkspaces"}
      /\ at[d] = "countFolders" => query[d].op = "listWorkspaces"
  BY ReaderAt DEF CountWorkflows, CountVariables, CountCredentials, CountFolders, IsAt,
                  QuestionsAt, Overviewing
<1>2. query[d].op # "listWorkspaces" => OwnRows(view[d].folders, query[d].user)
  BY <1>1, ReaderAt DEF OwnRows, Shown
<1>3. \A table : Counted(d, table) \subseteq DOMAIN rows
  BY TablesShow DEF Counted
<1>4. \A table \in Filed :
         query[d].op # "listWorkspaces" => OwnRows(Counted(d, table), query[d].user)
  BY <1>1, <1>2, FiledOwn DEF Counted
<1>5. /\ query[d].op \in QuestionsAt("countVariables")
      /\ query[d].op \in QuestionsAt("countCredentials")
      /\ query[d].op \in QuestionsAt("answered")
      /\ query[d].op = "listWorkspaces" => query[d].op \in QuestionsAt("countFolders")
  BY <1>1 DEF QuestionsAt, Overviewing, AllReadOps
<1>6. CASE CountWorkflows(d)
  BY <1>1, <1>3, <1>4, <1>5, <1>6, ListReads DEF CountWorkflows, Filed
<1>7. CASE CountVariables(d)
  BY <1>1, <1>3, <1>4, <1>5, <1>7, ListReads DEF CountVariables, Filed
<1>8. CASE CountCredentials(d)
  <2> DEFINE point == IF query[d].op = "listFolders" THEN "answered" ELSE "countFolders"
  <2>1. point # "idle" /\ query[d].op \in QuestionsAt(point)
    BY <1>1, <1>5
  <2>2. See(d, point, [view[d] EXCEPT !.credentials = Counted(d, "credential")])
    BY <1>8 DEF CountCredentials
  <2> HIDE DEF point
  <2> QED
    BY <1>1, <1>3, <1>4, <2>1, <2>2, ListReads DEF Filed
<1>9. CASE CountFolders(d)
  <2>1. query[d].op = "listWorkspaces"
    BY <1>1, <1>9 DEF CountFolders, IsAt
  <2> QED
    BY <1>1, <1>3, <1>5, <1>9, <2>1, ListReads DEF CountFolders
<1> QED
  BY <1>6, <1>7, <1>8, <1>9

-----------------------------------------------------------------------------
ReadsNext == WriteNext \/ ReadNext \/ Served

ReadsInv == TablesInv /\ ReadersInv

LEMMA ReadsNextKeeps == ReadsInv /\ [ReadsNext]_<<vars, readVars>> => ReadsInv'
<1> SUFFICES ASSUME TablesInv, ReadersInv, [ReadsNext]_<<vars, readVars>>
             PROVE  TablesInv' /\ ReadersInv'
  BY DEF ReadsInv
<1>1. CASE WriteNext \/ Served \/ UNCHANGED <<vars, readVars>>
  <2>1. [Next]_vars /\ UNCHANGED readVars
    BY <1>1 DEF WriteNext, Served, Next
  <2>2. TablesInv' /\ Steady
    BY <2>1, TablesNext, WritesSteady
  <2> QED
    BY <2>1, <2>2, WriteReaders
<1>2. CASE ReadNext
  <2>1. UNCHANGED vars /\ \E d \in Readers : AskAnything(d) \/ ReadStep(d)
    BY <1>2 DEF ReadNext
  <2>2. TablesInv'
    BY <2>1, StillKeeps
  <2>3. PICK d \in Readers : AskAnything(d) \/ ReadStep(d)
    BY <2>1
  <2>4. CASE AskAnything(d)
    BY <2>1, <2>2, <2>4, AskReaders
  <2>5. CASE FindHome(d) \/ FindMain(d) \/ FindWorkspaces(d) \/ FindFoldersOf(d) \/ FindWorkflowsOf(d)
    BY <2>1, <2>2, <2>5, FindHomeReads, FindMainReads, FindWorkspacesReads, FindFoldersReads,
       FindWorkflowsReads
  <2>6. CASE \/ FindAll(d) \/ GetWorkspace(d) \/ ListFolders(d) \/ GetDefaultFolder(d)
             \/ ListFolderWorkflows(d) \/ ListFolderVariables(d) \/ ListFolderCredentials(d)
             \/ CountWorkflows(d) \/ CountVariables(d) \/ CountCredentials(d) \/ CountFolders(d)
    BY <2>1, <2>2, <2>6, FindAllReads, GetWorkspaceReads, ListFoldersReads, GetDefaultFolderReads,
       ListFiledReads, CountReads
  <2> QED
    BY <2>2, <2>3, <2>4, <2>5, <2>6 DEF ReadStep
<1> QED
  BY <1>1, <1>2 DEF ReadsNext

LEMMA ReadsInitSound == Init /\ ReadInit => ReadsInv
<1> SUFFICES ASSUME Init, ReadInit PROVE ReadsInv
  OBVIOUS
<1>1. Nothing \in Seen
  BY DEF Nothing, Seen
<1>2. ReadersTyped
  BY <1>1 DEF ReadInit, ReadersTyped
<1>3. \A d \in Readers : ReaderSound(d)
  BY DEF ReadInit, ReaderSound
<1> QED
  BY <1>2, <1>3, TablesInit DEF ReadsInv, ReadersInv

LEMMA ReadsAlways == ReadSpec => []ReadsInv
BY ReadsInitSound, ReadsNextKeeps, PTL DEF ReadSpec, ReadsNext

\* A caller is shown rows of its own workspaces only.
THEOREM ReadsAreOwn == ReadSpec => []OnlyOwnRowsShown
<1>1. ReadsInv => OnlyOwnRowsShown
  BY DEF ReadsInv, ReadersInv, ReaderSound, OwnRows, OnlyOwnRowsShown
<1> QED
  BY <1>1, ReadsAlways, PTL

\* The default workspace and folder of an overview are among those it lists.
THEOREM OverviewsAgree == ReadSpec => []DefaultsAreListed
<1>1. ReadsInv => DefaultsAreListed
  BY DEF ReadsInv, ReadersInv, ReaderSound, OverviewSound, OverviewOf, Overview, DefaultsAreListed
<1> QED
  BY <1>1, ReadsAlways, PTL

\* An overview leaves out nothing that was there throughout.
THEOREM OverviewsAreWhole == ReadSpec => NothingLeftOut
<1> DEFINE Whole ==
        \A d \in Readers : ~Overview(d) /\ Overview(d)' =>
          \A id \in before[d] \cap DOMAIN rows :
            OwnerIn(rows, id) = query[d].user
                /\ rows[id].table \in {"workspace", "folder", "workflow"}
                => id \in Shown(d)'
<1>1. ASSUME ReadsInv, ReadsInv', [ReadsNext]_<<vars, readVars>> PROVE [Whole]_<<vars, readVars>>
  <2> SUFFICES ASSUME NEW d \in Readers, ~Overview(d), Overview(d)',
                      NEW id \in before[d] \cap DOMAIN rows,
                      OwnerIn(rows, id) = query[d].user,
                      rows[id].table \in {"workspace", "folder", "workflow"}
               PROVE  id \in Shown(d)'
    OBVIOUS
  <2>1. ~UNCHANGED readVars
    BY DEF Overview, readVars
  <2>2. ReadNext /\ rows' = rows
    BY <1>1, <2>1 DEF ReadsNext, WriteNext, Served, ReadNext, vars
  <2>3. PICK e \in Readers : AskAnything(e) \/ ReadStep(e)
    BY <2>2 DEF ReadNext
  <2>4. ASSUME AskAnything(e) PROVE FALSE
    BY <2>4, <1>1 DEF AskAnything, Ask, Overview, ReadsInv, ReadersInv, ReadersTyped
  <2>5. query' = query /\ before' = before
    BY <2>3, <2>4 DEF ReadStep, FindHome, FindMain, FindWorkspaces, FindFoldersOf, FindWorkflowsOf,
         FindAll, GetWorkspace, ListFolders, GetDefaultFolder, ListFolderWorkflows,
         ListFolderVariables, ListFolderCredentials, CountWorkflows, CountVariables,
         CountCredentials, CountFolders, See
  <2>6. /\ HasAll(view[d].workspaces, d, "workspace")'
        /\ HasAll(view[d].folders, d, "folder")'
        /\ HasAll(view[d].workflows, d, "workflow")'
    BY <1>1 DEF ReadsInv, ReadersInv, ReaderSound, OverviewSound, OverviewOf, Overview
  <2> QED
    BY <2>2, <2>5, <2>6 DEF HasAll, Kept, Shown
<1> QED
  BY <1>1, ReadsAlways, PTL DEF ReadSpec, ReadsNext, NothingLeftOut
===============================================================================
