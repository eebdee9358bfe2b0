---------------------------- MODULE MCWorkspaces ----------------------------
(***************************************************************************)
(* Instances of Workspaces for TLC: the requests of a run, and the tables  *)
(* that earlier requests (s1 to s5) left.                                  *)
(***************************************************************************)
EXTENDS WorkspacesProperties, FiniteSets, TLC

CONSTANTS q1, q2, q3, s1, s2, s3, s4, s5, u1, u2,
          default, main, other, slugD, slugA, slugB, v1, v2

OneRequest == {q1}
TwoRequests == {q1, q2}
ThreeRequests == {q1, q2, q3}
AllOrigins == {q1, q2, q3, s1, s2, s3, s4, s5}

OneUser == {u1}
TwoUsers == {u1, u2}
TwoNames == {default, main}
ThreeNames == {default, main, other}
TwoSlugs == {slugD, slugA}
ThreeSlugs == {slugD, slugA, slugB}
OneValue == {v1}
TwoValues == {v1, v2}

\* Two names with one slug.
Slugified == [n \in Names |-> IF n = default THEN slugD ELSE slugA]

FolderOps == {"createWorkspace", "createFolder", "renameFolder"}
FiledOps == AllOps \ FolderOps
RenameOps == {"renameFolder"}

-----------------------------------------------------------------------------
\* What createWorkspace, by request s for user u, leaves.
WorkspaceRows(s, u) ==
    (<<s, "workspace">> :> [Blank("workspace", Null)
        EXCEPT !.user = u, !.name = main, !.slug = Slugified[main]])
    @@ (<<s, "folder">> :> [Blank("folder", <<s, "workspace">>)
        EXCEPT !.name = default, !.slug = slugD, !.isDefault = TRUE])

\* What createFolder, by request s, and renames leave in the workspace w.
FolderRow(s, w, name, slug, isDefault) ==
    <<s, "folder">> :> [Blank("folder", <<w, "workspace">>)
        EXCEPT !.name = name, !.slug = slug, !.isDefault = isDefault]

FiledRow(s, table, w, f) ==
    <<s, table>> :> [Blank(table, <<w, "workspace">>)
        EXCEPT !.parent = <<f, "folder">>, !.name = main, !.value = v1]

WorkflowRows(s, w, f) ==
    (<<s, "workflow">> :> [Blank("workflow", <<w, "workspace">>)
        EXCEPT !.parent = <<f, "folder">>, !.name = main, !.value = v1,
               !.active = TRUE, !.current = <<s, "version">>])
    @@ (<<s, "version">> :> [Blank("version", <<w, "workspace">>)
        EXCEPT !.parent = <<s, "workflow">>])

\* A workspace with a second folder, and with a third.
Base == WorkspaceRows(s1, u1) @@ FolderRow(s2, s1, main, slugA, FALSE)
TwoFolders == {Base}
ThreeFolders == {Base @@ FolderRow(s3, s1, other, slugB, FALSE)}

\* Its folders, after concurrent renames have made both of these the default.
DefaultFoldersMoved ==
    FolderRow(s1, s1, default, slugD, FALSE)
        @@ FolderRow(s2, s1, main, slugA, TRUE)
        @@ FolderRow(s3, s1, other, slugB, TRUE)

\* Two users' workspaces with a workflow in each; a variable and a credential.
FiledTables ==
    {Base @@ WorkspaceRows(s3, u2) @@ WorkflowRows(s4, s1, s2) @@ WorkflowRows(s5, s3, s3)
        @@ FiledRow(s4, "variable", s1, s2) @@ FiledRow(s5, "credential", s1, s2)}

BothTables == TwoFolders \cup FiledTables

-----------------------------------------------------------------------------
\* Two instances in one run.  Where two users have filed rows, two requests use
\* them; in the other tables three requests of one user create and rename.
TwoOwners == <<s3, "workspace">> \in DOMAIN rows

Asked(r) ==
    \/ /\ TwoOwners
       /\ Cardinality(DOMAIN cmd) < 2
       /\ \E u \in Users, op \in FiledOps, w \in WorkspaceIds, f \in FolderIds :
            \/ AskWorkflows(r, u, w, f, op)
            \/ AskVariables(r, u, w, f, op)
            \/ AskCredentials(r, u, w, f, op)
       /\ cmd'[r].name # other
    \/ /\ ~TwoOwners
       /\ \E op \in FolderOps : AskFolders(r, u1, op)

\* The third request of the filed tables never comes.
Rested ==
    /\ TwoOwners
    /\ Cardinality(DOMAIN cmd) = 2
    /\ \A r \in DOMAIN cmd : pc[r] \in Finished
    /\ UNCHANGED vars

MCWorkspacesNext ==
    \/ \E r \in Requests : (At(r, "idle") /\ Asked(r)) \/ Step(r) \/ Die(r) \/ Cancel(r)
    \/ Quiescent
    \/ Rested

MCWorkspacesSpec == Init /\ [][MCWorkspacesNext]_vars

\* Requests are only named by the tables.
Symmetry == Permutations(Requests)
=============================================================================
