----------------------------- MODULE Workspaces -----------------------------
(***************************************************************************)
(* WorkspaceService and its repositories: workspaces with their folders,   *)
(* and the workflows, variables and credentials filed in the folders.      *)
(*                                                                         *)
(* Every request is a process whose statements interleave with the other   *)
(* requests'.  PostgreSQL runs them READ COMMITTED (runInTransaction names *)
(* no other level): a statement sees the rows committed before it and the  *)
(* ones of its own transaction; a row written by an open transaction is    *)
(* locked; a statement that meets such a row, or such an entry of a unique *)
(* index, waits for that transaction to end; of requests that wait for     *)
(* each other in a circle one is cancelled.  The share locks of foreign    *)
(* keys are left out: they delay statements that hold nothing yet.         *)
(***************************************************************************)
EXTENDS WorkspaceTables

CONSTANTS
    Requests,         \* the requests of a run
    Ops,              \* the operations they may perform
    StoredTables,     \* the contents earlier requests may have left
    RequestsMayFail   \* whether a request may die at an await

Creations == {"createWorkspace", "createFolder", "createWorkflow",
              "createVariable", "createCredential"}
Updates == {"updateWorkflow", "updateVariable", "updateCredential"}
Deletions == {"deleteWorkflow", "deleteVariable", "deleteCredential"}
AllOps == Creations \cup {"renameFolder"} \cup Updates \cup Deletions

ASSUME WorkspaceAssumption ==
    /\ Ops \subseteq AllOps
    /\ Requests \subseteq Origins
    /\ RequestsMayFail \in BOOLEAN

\* Earlier requests were served by this code, and randomUUID repeats no id.
ASSUME StoredAssumption ==
    \A t \in StoredTables :
        AtRest(t) /\ \A id \in DOMAIN t : id[1] \notin Requests

VARIABLES
    rows,      \* the committed rows
    draft,     \* the rows written by each open transaction, and locked by it
    targets,   \* the rows an UPDATE of many rows has still to visit
    pc,        \* the statement each request is at
    cmd        \* the command of each request begun

vars == <<rows, draft, targets, pc, cmd>>

\* The points of a request inside runInTransaction, and those of a request
\* whose one statement is its own transaction.
TxPoints == {"insertWorkspace", "insertDefault", "lockFolder", "rename",
             "findDefaults", "clear", "insertWorkflow", "insertVersion",
             "pointVersion", "commit"}
Patches == {"patchWorkflow", "patchVariable", "patchCredential"}
Erasures == {"eraseWorkflow", "eraseVariable", "eraseCredential"}
OneShots == {"insertFolder", "insertVariable", "insertCredential"} \cup Patches \cup Erasures
Running == TxPoints \cup OneShots

\* taken: a ConflictError.  unavailable: a unique violation no branch of the
\* repository recognises, answered 503.  failed: any other error.
Finished == {"done", "notFound", "taken", "unavailable", "failed"}

Command ==
    [op          : AllOps,
     user        : Users,
     workspace   : Ids \cup {Null},
     folder      : Ids \cup {Null},
     target      : Ids \cup {Null},
     name        : Names \cup {Null},
     slug        : Slugs \cup {Null},
     value       : Values \cup {Null},
     makeDefault : BOOLEAN]

Bare(op, user) ==
    [op |-> op, user |-> user, workspace |-> Null, folder |-> Null, target |-> Null,
     name |-> Null, slug |-> Null, value |-> Null, makeDefault |-> FALSE]

\* The table of the rows an operation is about.
Subject(op) ==
    CASE op = "createWorkspace" -> "workspace"
      [] op \in {"createFolder", "renameFolder"} -> "folder"
      [] op \in {"createWorkflow", "updateWorkflow", "deleteWorkflow"} -> "workflow"
      [] op \in {"createVariable", "updateVariable", "deleteVariable"} -> "variable"
      [] op \in {"createCredential", "updateCredential", "deleteCredential"} -> "credential"

At(r, point) == pc[r] = point

Goto(r, point) == pc' = [pc EXCEPT ![r] = point]

-----------------------------------------------------------------------------
(* Statements *)

\* What a statement of r sees.
View(r) == Over(draft[r], rows)

\* The id of the row r's next statement writes.
Target(r) ==
    CASE pc[r] \in {"lockFolder", "rename"} -> cmd[r].folder
      [] pc[r] \in Patches                   -> cmd[r].target
      [] pc[r] = "insertDefault"             -> <<r, "folder">>
      [] pc[r] = "insertVersion"             -> <<r, "version">>
      [] OTHER                               -> <<r, Subject(cmd[r].op)>>

\* A slug is derived from the name unless one is supplied.
SlugFor(c) == IF c.slug = Null THEN SlugOf[c.name] ELSE c.slug

Supplied(new, old) == IF new = Null THEN old ELSE new

\* The row it writes there.
Written(r) ==
    LET c == cmd[r]
        seen == View(r)[Target(r)]
        filed == [Blank(Subject(c.op), c.workspace)
                     EXCEPT !.parent = c.folder, !.name = c.name, !.value = c.value]
    IN  CASE pc[r] = "insertWorkspace" ->
               [Blank("workspace", Null) EXCEPT !.user = c.user, !.name = c.name,
                                                !.slug = SlugFor(c)]
          [] pc[r] = "insertDefault" ->
               [Blank("folder", <<r, "workspace">>)
                  EXCEPT !.name = DefaultName, !.slug = DefaultSlug, !.isDefault = TRUE]
          [] pc[r] = "insertFolder" ->
               [Blank("folder", c.workspace) EXCEPT !.name = c.name, !.slug = SlugFor(c)]
          [] pc[r] = "lockFolder" -> seen
          [] pc[r] = "rename" ->
               [seen EXCEPT !.name = c.name, !.isDefault = @ \/ c.makeDefault]
          [] pc[r] = "insertWorkflow" -> [filed EXCEPT !.active = TRUE]
          [] pc[r] = "insertVersion" ->
               [Blank("version", c.workspace) EXCEPT !.parent = <<r, "workflow">>]
          [] pc[r] = "pointVersion" -> [seen EXCEPT !.current = <<r, "version">>]
          [] pc[r] \in {"insertVariable", "insertCredential"} -> filed
          [] pc[r] \in Patches ->
               [seen EXCEPT !.name = Supplied(c.name, @), !.value = Supplied(c.value, @)]

\* The open transactions that hold row id.
Holders(r, id) == {q \in Requests \ {r} : id \in DOMAIN draft[q]}

\* Those that hold, or are replacing, an index entry the new row needs.
Rivals(r, row) ==
    {q \in Requests \ {r} : \E j \in DOMAIN draft[q] :
        \/ Clash(row, draft[q][j])
        \/ j \in DOMAIN rows /\ Clash(row, rows[j])}

\* The transactions the next statement of r waits for.
Awaits(r) ==
    CASE pc[r] = "clear"      -> UNION {Holders(r, id) : id \in targets[r]}
      [] pc[r] = "lockFolder" -> Holders(r, Target(r))
      [] pc[r] \in {"insertWorkspace", "insertDefault", "insertFolder", "rename",
                    "insertWorkflow", "insertVersion", "pointVersion",
                    "insertVariable", "insertCredential"} ->
            Holders(r, Target(r)) \cup Rivals(r, Written(r))
      [] pc[r] \in Patches /\ Target(r) \in DOMAIN rows ->
            Holders(r, Target(r)) \cup Rivals(r, Written(r))
      [] OTHER                -> {}

\* A unique violation.
Taken(r) ==
    \E j \in DOMAIN View(r) \ {Target(r)} : Clash(Written(r), View(r)[j])

\* How a unique violation is answered: the workflow repository expects one on
\* a slug, and the index is on the name.
Violation(r) == IF Subject(cmd[r].op) = "workflow" THEN "unavailable" ELSE "taken"

Rollback(r) ==
    /\ draft' = [draft EXCEPT ![r] = Empty]
    /\ targets' = [targets EXCEPT ![r] = {}]
    /\ UNCHANGED rows

\* A Stage that commits at once.
StageAutocommit(r, next) ==
    /\ Awaits(r) = {}
    /\ \/ /\ ~Taken(r)
          /\ rows' = Put(rows, Target(r), Written(r))
          /\ Goto(r, next)
          /\ UNCHANGED <<draft, targets>>
       \/ /\ Taken(r)
          /\ Rollback(r)
          /\ Goto(r, Violation(r))
    /\ UNCHANGED cmd

\* A Stage that leaves its transaction open when it fails.
StageLeavesOpen(r, next) ==
    /\ Awaits(r) = {}
    /\ \/ /\ ~Taken(r)
          /\ draft' = [draft EXCEPT ![r] = Put(@, Target(r), Written(r))]
          /\ Goto(r, next)
       \/ /\ Taken(r)
          /\ Goto(r, Violation(r))
          /\ UNCHANGED draft
    /\ UNCHANGED <<rows, targets, cmd>>

\* A statement inside a transaction.
Stage(r, next) ==
    /\ Awaits(r) = {}
    /\ \/ /\ ~Taken(r)
          /\ draft' = [draft EXCEPT ![r] = Put(@, Target(r), Written(r))]
          /\ Goto(r, next)
          /\ UNCHANGED <<rows, targets>>
       \/ /\ Taken(r)
          /\ Rollback(r)
          /\ Goto(r, Violation(r))
    /\ UNCHANGED cmd

\* A statement outside one.
Execute(r) ==
    /\ Awaits(r) = {}
    /\ \/ /\ ~Taken(r)
          /\ rows' = Put(rows, Target(r), Written(r))
          /\ Goto(r, "done")
       \/ /\ Taken(r)
          /\ Goto(r, Violation(r))
          /\ UNCHANGED rows
    /\ UNCHANGED <<draft, targets, cmd>>

\* The end of a runInTransaction whose callback returned.
Commit(r) ==
    /\ At(r, "commit")
    /\ rows' = View(r)
    /\ draft' = [draft EXCEPT ![r] = Empty]
    /\ Goto(r, "done")
    /\ UNCHANGED <<targets, cmd>>

-----------------------------------------------------------------------------
(* Requests: the service's checks, then the first statement.  What the     *)
(* checks read (a workspace's owner, a folder's workspace) is never        *)
(* written again, so checking at once is checking at each await.           *)

Begin(r, c, admitted, point) ==
    /\ At(r, "idle")
    /\ cmd' = Put(cmd, r, c)
    /\ Goto(r, IF admitted THEN point ELSE "notFound")
    /\ UNCHANGED <<rows, draft, targets>>

CreateWorkspace(r, user, name, slug) ==
    Begin(r, [Bare("createWorkspace", user) EXCEPT !.name = name, !.slug = slug],
          TRUE, "insertWorkspace")

CreateFolder(r, user, workspace, name, slug) ==
    Begin(r, [Bare("createFolder", user)
                 EXCEPT !.workspace = workspace, !.name = name, !.slug = slug],
          Owned(rows, workspace, user), "insertFolder")

RenameFolder(r, user, workspace, folder, name, makeDefault) ==
    Begin(r, [Bare("renameFolder", user)
                 EXCEPT !.workspace = workspace, !.folder = folder, !.name = name,
                        !.makeDefault = makeDefault],
          Reachable(rows, workspace, folder, user), "lockFolder")

\* A request for what a folder holds: assertFolder, then the statement.
InFolder(r, c, point) ==
    Begin(r, c, Reachable(rows, c.workspace, c.folder, c.user), point)

Filing(op, user, workspace, folder, name, value) ==
    [Bare(op, user) EXCEPT !.workspace = workspace, !.folder = folder,
                           !.name = name, !.value = value]

CreateWorkflow(r, u, w, f, n, v) ==
    InFolder(r, Filing("createWorkflow", u, w, f, n, v), "insertWorkflow")

CreateVariable(r, u, w, f, n, v) ==
    InFolder(r, Filing("createVariable", u, w, f, n, v), "insertVariable")

CreateCredential(r, u, w, f, n, v) ==
    InFolder(r, Filing("createCredential", u, w, f, n, v), "insertCredential")

UpdateWorkflow(r, u, w, f, t, n, v) ==
    InFolder(r, [Filing("updateWorkflow", u, w, f, n, v) EXCEPT !.target = t], "patchWorkflow")

\* The body's value is spread under a key the repository does not read.
UpdateVariable(r, u, w, f, t, n) ==
    InFolder(r, [Filing("updateVariable", u, w, f, n, Null) EXCEPT !.target = t], "patchVariable")

UpdateCredential(r, u, w, f, t, n, v) ==
    InFolder(r, [Filing("updateCredential", u, w, f, n, v) EXCEPT !.target = t], "patchCredential")

DeleteWorkflow(r, u, w, f, t) ==
    InFolder(r, [Filing("deleteWorkflow", u, w, f, Null, Null) EXCEPT !.target = t], "eraseWorkflow")

DeleteVariable(r, u, w, f, t) ==
    InFolder(r, [Filing("deleteVariable", u, w, f, Null, Null) EXCEPT !.target = t], "eraseVariable")

DeleteCredential(r, u, w, f, t) ==
    InFolder(r, [Filing("deleteCredential", u, w, f, Null, Null) EXCEPT !.target = t], "eraseCredential")

-----------------------------------------------------------------------------
(* PrismaWorkspaceRepository.create *)

InsertWorkspace(r) == At(r, "insertWorkspace") /\ Stage(r, "insertDefault")

InsertDefault(r) == At(r, "insertDefault") /\ Stage(r, "commit")

-----------------------------------------------------------------------------
(* PrismaFolderRepository *)

InsertFolder(r) == At(r, "insertFolder") /\ Execute(r)

\* rename: the UPDATE locks the row, and then enters the new name in the
\* index.
LockFolder(r) ==
    /\ At(r, "lockFolder")
    /\ Awaits(r) = {}
    /\ draft' = [draft EXCEPT ![r] = Put(@, Target(r), Written(r))]
    /\ Goto(r, "rename")
    /\ UNCHANGED <<rows, targets, cmd>>

Rename(r) ==
    /\ At(r, "rename")
    /\ Stage(r, IF cmd[r].makeDefault THEN "findDefaults" ELSE "commit")

\* An updateMany without id: { not: id }.
FindDefaultsSelf(r) ==
    /\ At(r, "findDefaults")
    /\ targets' = [targets EXCEPT ![r] =
            {id \in DOMAIN View(r) :
                /\ View(r)[id].table = "folder"
                /\ View(r)[id].workspace = cmd[r].workspace
                /\ View(r)[id].isDefault}]
    /\ Goto(r, "clear")
    /\ UNCHANGED <<rows, draft, cmd>>

\* The updateMany: the rows that match when it starts.
FindDefaults(r) ==
    /\ At(r, "findDefaults")
    /\ targets' = [targets EXCEPT ![r] =
            {id \in DOMAIN View(r) \ {cmd[r].folder} :
                /\ View(r)[id].table = "folder"
                /\ View(r)[id].workspace = cmd[r].workspace
                /\ View(r)[id].isDefault}]
    /\ Goto(r, "clear")
    /\ UNCHANGED <<rows, draft, cmd>>

\* Each one in turn, once unlocked, if it still matches.
ClearDefault(r, id) ==
    /\ At(r, "clear")
    /\ id \in targets[r]
    /\ Holders(r, id) = {}
    /\ draft' = IF View(r)[id].isDefault
                THEN [draft EXCEPT ![r] = Put(@, id, [View(r)[id] EXCEPT !.isDefault = FALSE])]
                ELSE draft
    /\ targets' = [targets EXCEPT ![r] = @ \ {id}]
    /\ UNCHANGED <<rows, pc, cmd>>

Cleared(r) ==
    /\ At(r, "clear")
    /\ targets[r] = {}
    /\ Goto(r, "commit")
    /\ UNCHANGED <<rows, draft, targets, cmd>>

-----------------------------------------------------------------------------
(* PrismaWorkflowRepository.create *)

InsertWorkflow(r) == At(r, "insertWorkflow") /\ Stage(r, "insertVersion")

InsertVersion(r) == At(r, "insertVersion") /\ Stage(r, "pointVersion")

PointVersion(r) == At(r, "pointVersion") /\ Stage(r, "commit")

-----------------------------------------------------------------------------
(* The statements of the workflow, variable and connection repositories *)

InsertVariable(r) == At(r, "insertVariable") /\ Execute(r)

InsertCredential(r) == At(r, "insertCredential") /\ Execute(r)

\* WHERE id AND folderId
Matches(r) ==
    /\ cmd[r].target \in DOMAIN rows
    /\ rows[cmd[r].target].table = Subject(cmd[r].op)
    /\ rows[cmd[r].target].parent = cmd[r].folder

\* An update of one row: P2025, when there is none, is a not-found answer.
Patch(r, point) ==
    /\ At(r, point)
    /\ \/ Matches(r) /\ Execute(r)
       \/ /\ ~Matches(r)
          /\ Goto(r, "notFound")
          /\ UNCHANGED <<rows, draft, targets, cmd>>

PatchWorkflow(r) == Patch(r, "patchWorkflow")
PatchVariable(r) == Patch(r, "patchVariable")
PatchCredential(r) == Patch(r, "patchCredential")

\* A delete of one row, and of those that go with it.
Erase(r, point, dependents) ==
    /\ At(r, point)
    /\ IF Matches(r)
       THEN rows' = Without(rows, {cmd[r].target} \cup dependents) /\ Goto(r, "done")
       ELSE Goto(r, "notFound") /\ UNCHANGED rows
    /\ UNCHANGED <<draft, targets, cmd>>

\* The versions a foreign key deletes with their workflow.
VersionsOf(workflow) ==
    {id \in DOMAIN rows : rows[id].table = "version" /\ rows[id].parent = workflow}

EraseWorkflow(r) == Erase(r, "eraseWorkflow", VersionsOf(cmd[r].target))
EraseVariable(r) == Erase(r, "eraseVariable", {})
EraseCredential(r) == Erase(r, "eraseCredential", {})

-----------------------------------------------------------------------------
(* The environment *)

\* The request dies, or its transaction times out: it is rolled back.
Die(r) ==
    /\ RequestsMayFail
    /\ pc[r] \in Running
    /\ Rollback(r)
    /\ Goto(r, "failed")
    /\ UNCHANGED cmd

\* r waits in a circle of requests each waiting for another.
InCircle(r) ==
    \E S \in SUBSET Requests :
        /\ r \in S
        /\ \A q \in S : /\ Awaits(q) \cap S # {}
                        /\ \E p \in S : q \in Awaits(p)

\* The deadlock detector cancels a statement of the circle.
Cancel(r) ==
    /\ InCircle(r)
    /\ Rollback(r)
    /\ Goto(r, "failed")
    /\ UNCHANGED cmd

Quiescent ==
    /\ \A r \in Requests : pc[r] \in Finished
    /\ UNCHANGED vars

-----------------------------------------------------------------------------
Init ==
    /\ rows \in StoredTables
    /\ draft = [r \in Requests |-> Empty]
    /\ targets = [r \in Requests |-> {}]
    /\ pc = [r \in Requests |-> "idle"]
    /\ cmd = Empty

WorkspaceIds == {id \in DOMAIN rows : rows[id].table = "workspace"}
FolderIds == {id \in DOMAIN rows : rows[id].table = "folder"}
FiledIds(table) == {id \in DOMAIN rows : rows[id].table = table}

\* What a client may ask for: the routes of workspaces and folders, and those
\* of the three kinds of rows a folder holds.
AskFolders(r, u, op) ==
    \/ /\ op = "createWorkspace"
       /\ \E n \in Names, s \in Slugs \cup {Null} : CreateWorkspace(r, u, n, s)
    \/ /\ op = "createFolder"
       /\ \E w \in WorkspaceIds, n \in Names, s \in Slugs \cup {Null} :
            CreateFolder(r, u, w, n, s)
    \/ /\ op = "renameFolder"
       /\ \E w \in WorkspaceIds, f \in FolderIds, n \in Names, d \in BOOLEAN :
            RenameFolder(r, u, w, f, n, d)

AskWorkflows(r, u, w, f, op) ==
    \/ op = "createWorkflow" /\ \E n \in Names, v \in Values : CreateWorkflow(r, u, w, f, n, v)
    \/ \E t \in FiledIds("workflow") :
         \/ /\ op = "updateWorkflow"
            /\ \E n \in Names \cup {Null}, v \in Values \cup {Null} :
                 UpdateWorkflow(r, u, w, f, t, n, v)
         \/ op = "deleteWorkflow" /\ DeleteWorkflow(r, u, w, f, t)

\* The body of an update of a variable has both its name and its value.
AskVariables(r, u, w, f, op) ==
    \/ op = "createVariable" /\ \E n \in Names, v \in Values : CreateVariable(r, u, w, f, n, v)
    \/ \E t \in FiledIds("variable") :
         \/ op = "updateVariable" /\ \E n \in Names : UpdateVariable(r, u, w, f, t, n)
         \/ op = "deleteVariable" /\ DeleteVariable(r, u, w, f, t)

AskCredentials(r, u, w, f, op) ==
    \/ op = "createCredential" /\ \E n \in Names, v \in Values : CreateCredential(r, u, w, f, n, v)
    \/ \E t \in FiledIds("credential") :
         \/ /\ op = "updateCredential"
            /\ \E n \in Names \cup {Null}, v \in Values \cup {Null} :
                 UpdateCredential(r, u, w, f, t, n, v)
         \/ op = "deleteCredential" /\ DeleteCredential(r, u, w, f, t)

Arrive(r) ==
    /\ At(r, "idle")
    /\ \E u \in Users, op \in Ops :
        \/ AskFolders(r, u, op)
        \/ \E w \in WorkspaceIds, f \in FolderIds :
             AskWorkflows(r, u, w, f, op) \/ AskVariables(r, u, w, f, op)
                \/ AskCredentials(r, u, w, f, op)

\* The next statement of a request.
Step(r) ==
    \/ InsertWorkspace(r) \/ InsertDefault(r)
    \/ InsertFolder(r)
    \/ LockFolder(r) \/ Rename(r) \/ FindDefaults(r) \/ Cleared(r)
    \/ \E id \in targets[r] : ClearDefault(r, id)
    \/ InsertWorkflow(r) \/ InsertVersion(r) \/ PointVersion(r)
    \/ InsertVariable(r) \/ InsertCredential(r)
    \/ PatchWorkflow(r) \/ PatchVariable(r) \/ PatchCredential(r)
    \/ EraseWorkflow(r) \/ EraseVariable(r) \/ EraseCredential(r)
    \/ Commit(r)

Next ==
    \/ \E r \in Requests : Arrive(r) \/ Step(r) \/ Die(r) \/ Cancel(r)
    \/ Quiescent

Spec == Init /\ [][Next]_vars

\* Node resumes every request whose statement was answered, and PostgreSQL
\* breaks every deadlock.
FairSpec == Spec /\ \A r \in Requests : WF_vars(Step(r)) /\ WF_vars(Cancel(r))
=============================================================================
