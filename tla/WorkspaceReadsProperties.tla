----------------------- MODULE WorkspaceReadsProperties -----------------------
(***************************************************************************)
(* What the reads promise, whatever is written between their statements.   *)
(***************************************************************************)
EXTENDS WorkspaceReads, WorkspacesProperties

Overview(d) == at[d] = "answered" /\ query[d].op = "overview" /\ view[d].home # Null

Shown(d) == view[d].workspaces \cup view[d].folders \cup view[d].workflows
              \cup view[d].variables \cup view[d].credentials

\* A caller is shown rows of its own workspaces only, although the statements
\* that list and count them do not name the caller: the ids they are given
\* come from a check, or from a list, some awaits earlier
\* (NamespaceService.getForUser, WorkspaceService.assertFolder).
OnlyOwnRowsShown ==
    \A d \in Readers : at[d] = "answered" /\ query[d].op # "listWorkspaces" =>
        \A id \in Shown(d) \cap DOMAIN rows : OwnerIn(rows, id) = query[d].user

\* The default folder an overview names is among the folders it lists, also
\* when it was created, and made the default, while the overview was read:
\* a client looks the one up in the other (the order of the awaits of
\* NamespaceService.getForUser).
DefaultsAreListed ==
    \A d \in Readers : Overview(d) =>
        /\ view[d].home \in view[d].workspaces
        /\ view[d].main # Null => view[d].main \in view[d].folders

\* An overview leaves out nothing that was there when it began and still is
\* when it is answered, whatever is added and deleted meanwhile.
NothingLeftOut ==
    [][\A d \in Readers : ~Overview(d) /\ Overview(d)' =>
         \A id \in before[d] \cap DOMAIN rows :
            OwnerIn(rows, id) = query[d].user /\ rows[id].table \in {"workspace", "folder", "workflow"}
                => id \in Shown(d)']_<<vars, readVars>>

-----------------------------------------------------------------------------
(* What the repository says and the code does not do. *)

\* The overview of a user shows the workspaces the user owned when it began
\* (namespace.controller.ts: everything the signed-in user owns).
OverviewIsComplete ==
    \A d \in Readers : at[d] = "answered" /\ query[d].op = "overview" =>
        \A id \in before[d] \cap WorkspaceIds :
            rows[id].user = query[d].user => id \in view[d].workspaces
=============================================================================
