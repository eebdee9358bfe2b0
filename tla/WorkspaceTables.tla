--------------------------- MODULE WorkspaceTables ---------------------------
(***************************************************************************)
(* The tables a workspace is made of (prisma/schema.prisma): workspaces,   *)
(* folders, workflows, workflow versions, variables and connections, as    *)
(* one function from row ids to rows, with the unique indexes over them.   *)
(*                                                                         *)
(* A row id is minted by randomUUID in the request that inserts the row,   *)
(* so it is named by that request and the row's table.  The columns        *)
(* nothing branches on (description, position, timestamps, and the slug of *)
(* a workflow, which no index holds) are left out; settings, metadata,     *)
(* credentials and a variable's value are "value".                         *)
(***************************************************************************)
EXTENDS Naturals

CONSTANTS
    Origins,      \* the requests that have minted, or may mint, row ids
    Users,        \* the user ids
    Names,        \* the names given to rows
    Slugs,        \* the slugs
    Values,       \* the payloads
    DefaultName, DefaultSlug,   \* 'default', as a name and as a slug
    SlugOf,       \* slugify, which maps many names to one slug
    Null

ASSUME TableAssumption ==
    /\ DefaultName \in Names /\ DefaultSlug \in Slugs
    /\ SlugOf \in [Names -> Slugs]

Tables == {"workspace", "folder", "workflow", "version", "variable", "credential"}

\* The tables whose rows are filed in a folder.
Filed == {"workflow", "variable", "credential"}

Ids == Origins \X Tables

Row ==
    [table     : Tables,
     user      : Users \cup {Null},    \* the owner of a workspace
     workspace : Ids \cup {Null},      \* the workspace of any other row
     parent    : Ids \cup {Null},      \* the folder, or a version's workflow
     name      : Names \cup {Null},
     slug      : Slugs \cup {Null},
     isDefault : BOOLEAN,
     active    : BOOLEAN,
     current   : Ids \cup {Null},      \* currentVersionId
     value     : Values \cup {Null}]

\* A row with its table and its workspace, every other column at its default.
Blank(table, workspace) ==
    [table |-> table, user |-> Null, workspace |-> workspace, parent |-> Null,
     name |-> Null, slug |-> Null, isDefault |-> FALSE, active |-> FALSE,
     current |-> Null, value |-> Null]

\* f with key k set to v, whether or not k was present.
Put(f, k, v) == [x \in DOMAIN f \cup {k} |-> IF x = k THEN v ELSE f[x]]

\* f with g written over it.
Over(g, f) == [x \in DOMAIN f \cup DOMAIN g |-> IF x \in DOMAIN g THEN g[x] ELSE f[x]]

Without(f, S) == [x \in DOMAIN f \ S |-> f[x]]

Empty == [x \in {} |-> Null]

-----------------------------------------------------------------------------
\* Unique indexes that miss the one on a folder's slug.
KeysNoFolderSlug(row) ==
    CASE row.table = "workspace" -> {<<"slug", row.user, row.slug>>}
      [] row.table = "folder"    -> {<<"name", row.workspace, row.name>>}
      [] row.table = "version"   -> {<<"version", row.parent>>}
      [] OTHER                   -> {<<row.table, row.workspace, row.parent, row.name>>}

\* The entries of a row in the unique indexes.  Every version row is number 1.
Keys(row) ==
    CASE row.table = "workspace" -> {<<"slug", row.user, row.slug>>}
      [] row.table = "folder"    -> {<<"name", row.workspace, row.name>>,
                                     <<"slug", row.workspace, row.slug>>}
      [] row.table = "version"   -> {<<"version", row.parent>>}
      [] OTHER                   -> {<<row.table, row.workspace, row.parent, row.name>>}

Clash(a, b) == Keys(a) \cap Keys(b) # {}

-----------------------------------------------------------------------------
(* A table at rest: no request is in the middle of it.                     *)

Kept(t, table) == {id \in DOMAIN t : t[id].table = table}

\* Rows are in the tables their ids name.
Typed(t) == \A id \in DOMAIN t : id \in Ids /\ t[id] \in Row /\ t[id].table = id[2]

Unique(t) == \A i, j \in DOMAIN t : i # j => ~Clash(t[i], t[j])

\* The foreign keys of a row, and that its parent is in its own workspace.
LinkedRow(t, id) ==
    LET row == t[id] IN
    /\ row.table = "workspace" => row.user \in Users
    /\ row.table # "workspace" => row.workspace \in Kept(t, "workspace")
    /\ row.table \in Filed => row.parent \in Kept(t, "folder")
    /\ row.table = "version" => row.parent \in Kept(t, "workflow")
    /\ row.table \in Filed \cup {"version"} => t[row.parent].workspace = row.workspace
    /\ row.table = "workflow" =>
         row.current \in Kept(t, "version") /\ t[row.current].parent = id

Linked(t) == \A id \in DOMAIN t : LinkedRow(t, id)

Defaulted(t) ==
    \A w \in Kept(t, "workspace") :
        \E f \in Kept(t, "folder") : t[f].workspace = w /\ t[f].isDefault

AtRest(t) == Typed(t) /\ Unique(t) /\ Linked(t) /\ Defaulted(t)

-----------------------------------------------------------------------------

\* findOwned: the workspace exists and is the caller's.
Owned(rows, workspace, user) ==
    /\ workspace \in DOMAIN rows
    /\ rows[workspace].user = user

\* An assertFolder that does not look at the folder's workspace.
ReachableAnyWorkspace(rows, workspace, folder, user) ==
    /\ Owned(rows, workspace, user)
    /\ folder \in DOMAIN rows

\* assertFolder: the caller's workspace, and a folder in it.
Reachable(rows, workspace, folder, user) ==
    /\ Owned(rows, workspace, user)
    /\ folder \in DOMAIN rows
    /\ rows[folder].workspace = workspace
=============================================================================
