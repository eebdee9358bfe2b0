--------------------------- MODULE WorkspaceReads ---------------------------
(***************************************************************************)
(* The reads over the workspace tables: NamespaceService.getForUser, and   *)
(* the lists and counts of WorkspaceService and WorkspaceController.  None *)
(* runs in a transaction: each statement sees what is committed when it    *)
(* runs, and the writes of other requests come between one statement and   *)
(* the next.                                                               *)
(***************************************************************************)
EXTENDS Workspaces

CONSTANTS Readers, ReadOps

AllReadOps == {"overview", "listWorkspaces", "getWorkspace", "listFolders",
               "getDefaultFolder", "listFiled"}

ASSUME ReadAssumption == ReadOps \subseteq AllReadOps

VARIABLES
    at,        \* the statement each reader is at
    query,     \* what each reader asked for
    view,      \* what it has read so far
    before     \* for the properties: the rows committed when it began

readVars == <<at, query, view, before>>

\* home, main: the default workspace and its default folder.
Nothing == [home |-> Null, main |-> Null, workspaces |-> {}, folders |-> {},
            workflows |-> {}, variables |-> {}, credentials |-> {}]

ReadOver == {"answered", "missing"}

IsAt(d, point) == at[d] = point

\* findMany and groupBy: the rows of a table in some workspaces, in a folder.
InWorkspaces(table, workspaces) ==
    {id \in DOMAIN rows : rows[id].table = table /\ rows[id].workspace \in workspaces}
InFolders(table, folders) ==
    {id \in DOMAIN rows : rows[id].table = table /\ rows[id].parent \in folders}

DefaultWorkspaces(user) ==
    {id \in DOMAIN rows : /\ rows[id].table = "workspace"
                          /\ rows[id].user = user /\ rows[id].isDefault}
DefaultFolders(workspace) ==
    {id \in InWorkspaces("folder", {workspace}) : rows[id].isDefault}
WorkspacesOf(user) ==
    {id \in DOMAIN rows : rows[id].table = "workspace" /\ rows[id].user = user}

\* findFirst: any row that matches, or null.
FirstOf(S) == IF S = {} THEN {Null} ELSE S

-----------------------------------------------------------------------------
Ask(d, q, admitted, point) ==
    /\ IsAt(d, "idle")
    /\ query' = [query EXCEPT ![d] = q]
    /\ before' = [before EXCEPT ![d] = DOMAIN rows]
    /\ at' = [at EXCEPT ![d] = IF admitted THEN point ELSE "missing"]
    /\ UNCHANGED view

Question(op, user, workspace, folder) ==
    [op |-> op, user |-> user, workspace |-> workspace, folder |-> folder]

\* What a client may ask to read.
AskAnything(d) ==
    \E u \in Users, op \in ReadOps :
        \/ /\ op = "overview"
           /\ Ask(d, Question(op, u, Null, Null), TRUE, "home")
        \/ /\ op = "listWorkspaces"
           /\ Ask(d, Question(op, u, Null, Null), TRUE, "all")
        \/ /\ op \in {"getWorkspace", "listFolders", "getDefaultFolder"}
           /\ \E w \in WorkspaceIds :
                Ask(d, Question(op, u, w, Null), Owned(rows, w, u),
                    CASE op = "getWorkspace" -> "one"
                      [] op = "listFolders" -> "folders"
                      [] op = "getDefaultFolder" -> "default")
        \/ /\ op = "listFiled"
           /\ \E w \in WorkspaceIds, f \in FolderIds :
                Ask(d, Question(op, u, w, f), Reachable(rows, w, f, u), "filed")

\* The answer of a statement, and the next one.
See(d, point, seen) ==
    /\ view' = [view EXCEPT ![d] = seen]
    /\ at' = [at EXCEPT ![d] = point]
    /\ UNCHANGED <<query, before>>

-----------------------------------------------------------------------------
(* NamespaceService.getForUser *)

\* The default folder read after the lists.
ThenListsFirst(point) ==
    CASE point = "home"       -> "workspaces"
      [] point = "workspaces" -> "both"
      [] point = "both"       -> "main"
      [] point = "main"       -> "answered"

\* The order of the awaits.
Then(point) ==
    CASE point = "home"       -> "main"
      [] point = "main"       -> "workspaces"
      [] point = "workspaces" -> "both"
      [] point = "both"       -> "answered"

\* Without a default workspace nothing more is read.
FindHome(d) ==
    /\ IsAt(d, "home")
    /\ \E w \in FirstOf(DefaultWorkspaces(query[d].user)) :
         See(d, IF w = Null THEN "answered" ELSE Then("home"), [view[d] EXCEPT !.home = w])

FindMain(d) ==
    /\ IsAt(d, "main")
    /\ \E f \in FirstOf(DefaultFolders(view[d].home)) :
         See(d, Then("main"), [view[d] EXCEPT !.main = f])

FindWorkspaces(d) ==
    /\ IsAt(d, "workspaces")
    /\ See(d, Then("workspaces"), [view[d] EXCEPT !.workspaces = WorkspacesOf(query[d].user)])

\* The ids the two lists are restricted to: the default workspace's only.
ListedHome(d) == {view[d].home}

\* The ids the two lists are restricted to.
Listed(d) == view[d].workspaces

\* The Promise.all: both lists are under way, and either answers first.
FindFoldersOf(d) ==
    /\ at[d] \in {"both", "foldersLeft"}
    /\ See(d, IF IsAt(d, "both") THEN "workflowsLeft" ELSE Then("both"),
           [view[d] EXCEPT !.folders = InWorkspaces("folder", Listed(d))])

FindWorkflowsOf(d) ==
    /\ at[d] \in {"both", "workflowsLeft"}
    /\ See(d, IF IsAt(d, "both") THEN "foldersLeft" ELSE Then("both"),
           [view[d] EXCEPT !.workflows = InWorkspaces("workflow", Listed(d))])

-----------------------------------------------------------------------------
(* WorkspaceService *)

\* listAll, of every user: the route is not scoped.
FindAll(d) ==
    /\ IsAt(d, "all")
    /\ See(d, "countWorkflows", [view[d] EXCEPT !.workspaces = WorkspaceIds])

GetWorkspace(d) ==
    /\ IsAt(d, "one")
    /\ See(d, "answered", [view[d] EXCEPT !.workspaces = {query[d].workspace}])

ListFolders(d) ==
    /\ IsAt(d, "folders")
    /\ See(d, "countWorkflows",
           [view[d] EXCEPT !.folders = InWorkspaces("folder", {query[d].workspace})])

GetDefaultFolder(d) ==
    /\ IsAt(d, "default")
    /\ \E f \in FirstOf(DefaultFolders(query[d].workspace)) :
         See(d, IF f = Null THEN "missing" ELSE "answered", [view[d] EXCEPT !.main = f])

\* A folder's workflows, variables or credentials, each a request of its own.
ListFolderWorkflows(d) ==
    /\ IsAt(d, "filed")
    /\ See(d, "answered",
           [view[d] EXCEPT !.workflows = InFolders("workflow", {query[d].folder})])

ListFolderVariables(d) ==
    /\ IsAt(d, "filed")
    /\ See(d, "answered",
           [view[d] EXCEPT !.variables = InFolders("variable", {query[d].folder})])

ListFolderCredentials(d) ==
    /\ IsAt(d, "filed")
    /\ See(d, "answered",
           [view[d] EXCEPT !.credentials = InFolders("credential", {query[d].folder})])

\* The counts, one groupBy after another: per folder after a list of folders,
\* per workspace after the list of workspaces.  The rows counted are kept.
Counted(d, table) ==
    IF query[d].op = "listFolders" THEN InFolders(table, view[d].folders)
    ELSE InWorkspaces(table, view[d].workspaces)

CountWorkflows(d) ==
    /\ IsAt(d, "countWorkflows")
    /\ See(d, "countVariables", [view[d] EXCEPT !.workflows = Counted(d, "workflow")])

CountVariables(d) ==
    /\ IsAt(d, "countVariables")
    /\ See(d, "countCredentials", [view[d] EXCEPT !.variables = Counted(d, "variable")])

CountCredentials(d) ==
    /\ IsAt(d, "countCredentials")
    /\ See(d, IF query[d].op = "listFolders" THEN "answered" ELSE "countFolders",
           [view[d] EXCEPT !.credentials = Counted(d, "credential")])

CountFolders(d) ==
    /\ IsAt(d, "countFolders")
    /\ See(d, "answered", [view[d] EXCEPT !.folders = Counted(d, "folder")])

-----------------------------------------------------------------------------
ReadStep(d) ==
    \/ FindHome(d) \/ FindMain(d) \/ FindWorkspaces(d)
    \/ FindFoldersOf(d) \/ FindWorkflowsOf(d)
    \/ FindAll(d) \/ GetWorkspace(d)
    \/ ListFolders(d) \/ GetDefaultFolder(d)
    \/ ListFolderWorkflows(d) \/ ListFolderVariables(d) \/ ListFolderCredentials(d)
    \/ CountWorkflows(d) \/ CountVariables(d) \/ CountCredentials(d) \/ CountFolders(d)

ReadInit ==
    /\ at = [d \in Readers |-> "idle"]
    /\ query = [d \in Readers |-> Null]
    /\ view = [d \in Readers |-> Nothing]
    /\ before = [d \in Readers |-> {}]

Served == /\ \A r \in Requests : pc[r] \in Finished
          /\ \A d \in Readers : at[d] \in ReadOver
          /\ UNCHANGED <<vars, readVars>>

WriteNext ==
    /\ \E r \in Requests : Arrive(r) \/ Step(r) \/ Die(r) \/ Cancel(r)
    /\ UNCHANGED readVars

ReadNext ==
    /\ \E d \in Readers : AskAnything(d) \/ ReadStep(d)
    /\ UNCHANGED vars

ReadSpec == Init /\ ReadInit /\ [][WriteNext \/ ReadNext \/ Served]_<<vars, readVars>>

\* Node resumes the requests and the readers, PostgreSQL breaks deadlocks.
ReadFairness ==
    /\ \A r \in Requests : WF_vars(Step(r)) /\ WF_vars(Cancel(r))
    /\ \A d \in Readers : WF_readVars(ReadStep(d))

FairReadSpec == ReadSpec /\ ReadFairness
=============================================================================
