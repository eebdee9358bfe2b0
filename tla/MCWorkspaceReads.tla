--------------------------- MODULE MCWorkspaceReads ---------------------------
(***************************************************************************)
(* Instances of WorkspaceReads for TLC: the tables and names of            *)
(* MCWorkspaces, and one reader among two requests that write; beside      *)
(* them, in a database without workspaces, a walk through the users.       *)
(***************************************************************************)
EXTENDS MCWorkspaces, WorkspaceReadsProperties, UserListingProperties

CONSTANTS d1

OneReader == {d1}
OverviewOnly == {"overview"}
OneWorkspace == {"createWorkspace"}
HomeOps == {"createFolder", "renameFolder", "deleteWorkflow"}

NoTables == {Empty}

\* What a write of these runs asks for, in the first workspace: to create a
\* folder that is not there yet, to make a folder the default, by its own name or by
\* one that is taken, or to delete a workflow.
Telling(c) ==
    /\ c.workspace = <<s1, "workspace">>
    /\ c.op = "createFolder" => c.name = other /\ c.slug = slugB
    /\ c.op = "renameFolder" => c.makeDefault /\ c.name \in {default, rows[c.folder].name}

\* Only those, and only requests and reads that are admitted.
TellingNext ==
    /\ WriteNext \/ ReadNext \/ Served
    /\ \A r \in DOMAIN cmd' \ DOMAIN cmd : Telling(cmd'[r]) /\ pc'[r] # "notFound"
    /\ \A d \in Readers : IsAt(d, "idle") => at'[d] # "missing"

-----------------------------------------------------------------------------
ThreeUsers == 1..3
TwoInstants == 1..2
ActiveOnly == [statuses |-> {"ACTIVE"}, includeDeleted |-> FALSE]

\* The listing starts with any active users, where there are no workspaces.
Listing == rows = Empty

ReadsInit ==
    /\ Init /\ ReadInit /\ ListingInit
    /\ users # Empty => Listing
    /\ \A id \in DOMAIN users : users[id].status = "ACTIVE" /\ ~users[id].deleted

ReadsNext ==
    \/ ~Listing /\ TellingNext /\ UNCHANGED listingVars
    \/ Listing /\ ListingNext /\ UNCHANGED <<vars, readVars>>

ReadsSpec == /\ ReadsInit /\ [][ReadsNext]_<<vars, readVars, listingVars>>
             /\ ReadFairness

\* No user asks for pages.
OverviewSpec == /\ Init /\ ReadInit /\ ListingInit /\ users = Empty
                /\ [][(WriteNext \/ ReadNext \/ Served) /\ UNCHANGED listingVars]_<<vars, readVars, listingVars>>

-----------------------------------------------------------------------------
\* The workspace s of user u has been made the user's default.
MadeDefault(s, u) ==
    [id \in {<<s, "workspace">>} |-> [WorkspaceRows(s, u)[id] EXCEPT !.isDefault = TRUE]]

\* What else is there: another workspace of the user, with a workflow, and
\* one of another user.
Elsewhere ==
    [id \in {<<s4, "workspace">>} |-> [WorkspaceRows(s4, u1)[id] EXCEPT !.slug = slugD]]
        @@ WorkspaceRows(s4, u1) @@ WorkflowRows(s4, s4, s4)
        @@ WorkspaceRows(s5, u2) @@ WorkflowRows(s5, s5, s5)

\* The default workspace with two folders and a workflow, and with three of
\* which concurrent renames have made two the default.
HomeTables ==
    {Empty,
     MadeDefault(s1, u1) @@ Base @@ WorkflowRows(s1, s1, s2) @@ Elsewhere,
     MadeDefault(s1, u1) @@ DefaultFoldersMoved}
=============================================================================
