------------------------ MODULE WorkspacesProperties ------------------------
(***************************************************************************)
(* What the workspace tables promise, whatever the requests interleave.    *)
(***************************************************************************)
EXTENDS Workspaces

\* Types, and that only an open transaction holds rows: every variable keeps
\* its type, and a request that is over, or has not begun, locks nothing.
TypeOK ==
    /\ DOMAIN rows \subseteq Ids /\ \A id \in DOMAIN rows : rows[id] \in Row
    /\ DOMAIN cmd \subseteq Requests /\ \A r \in DOMAIN cmd : cmd[r] \in Command
    /\ pc \in [Requests -> {"idle"} \cup Running \cup Finished]
    /\ \A r \in Requests :
         /\ DOMAIN draft[r] \subseteq Ids /\ targets[r] \subseteq Ids
         /\ \A id \in DOMAIN draft[r] : draft[r][id] \in Row
         /\ pc[r] \notin TxPoints => draft[r] = Empty /\ targets[r] = {}

Of(table) == {id \in DOMAIN rows : rows[id].table = table}

-----------------------------------------------------------------------------
\* Concurrent creates and renames never leave two rows a path cannot tell
\* apart: no two folders of a workspace share a name or a slug, and no two
\* workspaces of a user share a slug (the repositories' create and rename,
\* which check nothing before they write).
NoTwins ==
    \A i, j \in DOMAIN rows : i # j /\ rows[i].table = rows[j].table =>
        CASE rows[i].table = "workspace" ->
               rows[i].user # rows[j].user \/ rows[i].slug # rows[j].slug
          [] rows[i].table = "folder" ->
               rows[i].workspace = rows[j].workspace =>
                  rows[i].name # rows[j].name /\ rows[i].slug # rows[j].slug
          [] OTHER -> TRUE

\* A workspace always has a default folder: not between the inserts of its
\* creation, not when a request dies there, and not while renames move the
\* default from folder to folder (PrismaWorkspaceRepository.create,
\* PrismaFolderRepository.rename).
AlwaysADefault ==
    \A w \in Of("workspace") :
        \E f \in Of("folder") : rows[f].workspace = w /\ rows[f].isDefault

\* A workflow is never seen without its first version, nor a version without
\* its workflow, however the request that creates it ends and whoever deletes
\* it (PrismaWorkflowRepository.create, delete).  The description of the route
\* has a workflow start without a version; the code makes both together.
WholeWorkflows ==
    /\ \A w \in Of("workflow") :
         /\ rows[w].current \in Of("version")
         /\ rows[rows[w].current].parent = w
    /\ \A v \in Of("version") : rows[v].parent \in Of("workflow")

\* A row is filed in a folder of its own workspace, although no constraint of
\* the schema relates a row's workspaceId to its folder's
\* (WorkspaceService.assertFolder, which every filed row's write follows).
FiledInOwnWorkspace ==
    \A id \in DOMAIN rows : rows[id].table \in Filed =>
        /\ rows[id].parent \in Of("folder")
        /\ rows[rows[id].parent].workspace = rows[id].workspace

-----------------------------------------------------------------------------
IsWritten(id) ==
    \/ id \in DOMAIN rows /\ id \notin DOMAIN rows'
    \/ id \in DOMAIN rows' /\ id \notin DOMAIN rows
    \/ id \in DOMAIN rows /\ id \in DOMAIN rows' /\ rows'[id] # rows[id]

\* The user a row of table t belongs to.
OwnerIn(t, id) == IF t[id].table = "workspace" THEN t[id].user ELSE t[t[id].workspace].user

\* No request changes, adds or deletes a row of another user's workspace: the
\* checks are made at the start and the repositories' statements, which do not
\* know the user, come later (WorkspaceService.findOwned, assertFolder).
OnlyOwnersWrite ==
    [][\A id \in Ids : IsWritten(id) =>
         \E r \in Requests :
            /\ pc[r] \in Running /\ pc'[r] # pc[r]
            /\ id \in DOMAIN rows  => OwnerIn(rows, id) = cmd[r].user
            /\ id \in DOMAIN rows' => OwnerIn(rows', id) = cmd[r].user]_vars

\* Every request is answered, also when transactions that move the default
\* folder wait for each other in a circle: none is left waiting on a
\* transaction nobody ends (runInTransaction, PostgreSQL's deadlock detector).
EveryRequestAnswered ==
    \A r \in Requests : pc[r] \in Running ~> pc[r] \in Finished

-----------------------------------------------------------------------------
(* What the repository says and the code does not do.                      *)

\* A folder made the default is the only default of its workspace
\* (rename-folder.dto.ts, folder.repository.port.ts).
OneDefaultFolder ==
    \A f, g \in Of("folder") :
        rows[f].isDefault /\ rows[g].isDefault /\ rows[f].workspace = rows[g].workspace
            => f = g
=============================================================================
