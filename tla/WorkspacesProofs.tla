--------------------------- MODULE WorkspacesProofs ---------------------------
(***************************************************************************)
(* The promises of the workspace tables, for any number of requests,       *)
(* users, names and earlier rows.                                          *)
(*                                                                         *)
(* A transaction holds the rows it has written, and index entries with     *)
(* them, so what it will leave is settled before it commits: the invariant *)
(* says of every draft what the tables need of it, and that no two drafts  *)
(* are in each other's way.                                                *)
(***************************************************************************)
EXTENDS WorkspacesProperties, TLAPS

\* The operations that are at a point.
OpsAt(point) ==
    {op \in AllOps :
        /\ point \in {"insertWorkspace", "insertDefault"} => op = "createWorkspace"
        /\ point \in {"lockFolder", "rename", "findDefaults", "clear"} => op = "renameFolder"
        /\ point \in {"insertWorkflow", "insertVersion", "pointVersion"} => op = "createWorkflow"
        /\ point = "insertFolder" => op = "createFolder"
        /\ point = "insertVariable" => op = "createVariable"
        /\ point = "insertCredential" => op = "createCredential"
        /\ point = "patchWorkflow" => op = "updateWorkflow"
        /\ point = "patchVariable" => op = "updateVariable"
        /\ point = "patchCredential" => op = "updateCredential"
        /\ point = "eraseWorkflow" => op = "deleteWorkflow"
        /\ point = "eraseVariable" => op = "deleteVariable"
        /\ point = "eraseCredential" => op = "deleteCredential"
        /\ point = "commit" => op \in {"createWorkspace", "renameFolder", "createWorkflow"}}

\* The points at which a transaction has written something.
Opened == {"insertDefault", "rename", "findDefaults", "clear", "insertVersion",
           "pointVersion", "commit"}

Domains ==
    /\ DOMAIN draft = Requests /\ DOMAIN targets = Requests
    /\ pc \in [Requests -> {"idle"} \cup Running \cup Finished]
    /\ DOMAIN cmd \subseteq Requests /\ \A r \in DOMAIN cmd : cmd[r] \in Command
    /\ \A r \in Requests : Typed(draft[r]) /\ targets[r] \subseteq Ids

\* What the checks of a request that is under way found, and still holds: the
\* workspace is the caller's, and the folder is in it.
Admitted(r) ==
    LET c == cmd[r] IN
    /\ r \in DOMAIN cmd /\ c.op \in OpsAt(pc[r])
    /\ c.op \in Creations \cup {"renameFolder"} => c.name \in Names
    /\ c.op # "createWorkspace" =>
         c.workspace \in Kept(rows, "workspace") /\ rows[c.workspace].user = c.user
    /\ c.op \notin {"createWorkspace", "createFolder"} =>
         c.folder \in Kept(rows, "folder") /\ rows[c.folder].workspace = c.workspace

AllAdmitted == \A r \in Requests : pc[r] \in Running => Admitted(r)

\* The ids of a draft, point by point.
Extent(r) ==
    /\ pc[r] \notin Opened => draft[r] = Empty
    /\ pc[r] # "clear" => targets[r] = {}
    /\ pc[r] = "insertDefault" => DOMAIN draft[r] = {<<r, "workspace">>}
    /\ pc[r] = "insertVersion" => DOMAIN draft[r] = {<<r, "workflow">>}
    /\ pc[r] = "pointVersion" => DOMAIN draft[r] = {<<r, "workflow">>, <<r, "version">>}
    /\ pc[r] \in {"rename", "findDefaults"} => DOMAIN draft[r] = {cmd[r].folder}
    /\ pc[r] = "clear" => cmd[r].folder \in DOMAIN draft[r]
    /\ pc[r] = "commit" =>
        /\ cmd[r].op = "createWorkspace" =>
             DOMAIN draft[r] = {<<r, "workspace">>, <<r, "folder">>}
        /\ cmd[r].op = "createWorkflow" =>
             DOMAIN draft[r] = {<<r, "workflow">>, <<r, "version">>}
        /\ cmd[r].op = "renameFolder" => cmd[r].folder \in DOMAIN draft[r]

\* Every row a rename holds is a folder of its workspace, in which it changes
\* names and flags only.
HoldsFolder(r, id) ==
    /\ id \in Kept(rows, "folder") /\ rows[id].workspace = cmd[r].workspace
    /\ draft[r][id].workspace = rows[id].workspace
    /\ draft[r][id].user = rows[id].user

\* What is in a draft.
Content(r) ==
    LET d == draft[r]
        c == cmd[r]
    IN  \A id \in DOMAIN d :
          /\ c.op = "createWorkspace" =>
               /\ id = <<r, "workspace">> => d[id].user = c.user
               /\ id = <<r, "folder">> =>
                    d[id].workspace = <<r, "workspace">> /\ d[id].isDefault
          /\ c.op = "createWorkflow" =>
               /\ d[id].workspace = c.workspace
               /\ id = <<r, "workflow">> => d[id].parent = c.folder
               /\ id = <<r, "version">> => d[id].parent = <<r, "workflow">>
               /\ id = <<r, "workflow">> /\ pc[r] = "commit" =>
                    d[id].current = <<r, "version">>
          /\ c.op = "renameFolder" => HoldsFolder(r, id)

\* A rename takes the flag from a folder only while it holds one with it.
KeepsADefault(r) ==
    \A id \in DOMAIN draft[r] \cap DOMAIN rows :
        rows[id].isDefault /\ ~draft[r][id].isDefault => draft[r][cmd[r].folder].isDefault

\* The folders it has still to visit are others.
Visits(r) ==
    /\ pc[r] \in {"findDefaults", "clear"} => draft[r][cmd[r].folder].isDefault
    /\ targets[r] \cap DOMAIN draft[r] = {}
    /\ \A id \in targets[r] :
         id \in Kept(rows, "folder") /\ rows[id].workspace = cmd[r].workspace

DraftSound(r) ==
    /\ Extent(r)
    /\ pc[r] \in Opened => Content(r) /\ KeepsADefault(r) /\ Visits(r)

DraftsSound == \A r \in Requests : DraftSound(r)

\* No row is held twice, and the ids a request mints are new.
Exclusive ==
    /\ \A q, r \in Requests : q # r => DOMAIN draft[q] \cap DOMAIN draft[r] = {}
    /\ \A r \in Requests, table \in Tables :
         <<r, table>> \in DOMAIN rows => pc[r] = "done"

\* The unique indexes, over the committed rows and the drafts: a draft is in
\* the way of no committed row it does not replace, nor of another draft.
Indexed ==
    /\ Unique(rows)
    /\ \A r \in Requests :
        /\ Unique(draft[r])
        /\ \A i \in DOMAIN draft[r], j \in DOMAIN rows \ DOMAIN draft[r] :
             ~Clash(draft[r][i], rows[j])
        /\ \A q \in Requests \ {r} : \A i \in DOMAIN draft[r], j \in DOMAIN draft[q] :
             ~Clash(draft[r][i], draft[q][j])

TablesInv ==
    /\ Typed(rows) /\ Domains /\ AllAdmitted /\ DraftsSound /\ Exclusive
    /\ Linked(rows) /\ Defaulted(rows)

-----------------------------------------------------------------------------
(* The operators the tables are built with *)

LEMMA EmptyIs == DOMAIN Empty = {}
BY DEF Empty

LEMMA PutIs ==
    ASSUME NEW f, NEW k, NEW v
    PROVE  /\ DOMAIN Put(f, k, v) = DOMAIN f \cup {k}
           /\ Put(f, k, v)[k] = v
           /\ \A x \in DOMAIN f \ {k} : Put(f, k, v)[x] = f[x]
BY DEF Put

LEMMA OverIs ==
    ASSUME NEW f, NEW g
    PROVE  /\ DOMAIN Over(g, f) = DOMAIN f \cup DOMAIN g
           /\ \A x \in DOMAIN g : Over(g, f)[x] = g[x]
           /\ \A x \in DOMAIN f \ DOMAIN g : Over(g, f)[x] = f[x]
BY DEF Over

LEMMA PutTyped ==
    ASSUME NEW f, Typed(f), NEW id \in Ids, NEW row \in Row, row.table = id[2]
    PROVE  Typed(Put(f, id, row))
<1> DEFINE g == Put(f, id, row)
<1>1. DOMAIN g = DOMAIN f \cup {id} /\ g[id] = row /\ \A x \in DOMAIN f \ {id} : g[x] = f[x]
  BY DEF Put
<1> HIDE DEF g
<1>2. \A x \in DOMAIN g : x \in Ids /\ g[x] \in Row /\ g[x].table = x[2]
  BY <1>1 DEF Typed
<1> QED
  BY <1>2 DEF Typed, g

\* Only the table and the columns of the indexes count in a clash.
LEMMA SameKeys ==
    ASSUME NEW a \in Row, NEW b, 
           b.table = a.table, b.user = a.user, b.workspace = a.workspace,
           b.parent = a.parent, b.name = a.name, b.slug = a.slug
    PROVE  Keys(b) = Keys(a)
BY DEF Keys

-----------------------------------------------------------------------------
(* The row a statement writes *)

\* The id and the row of each insert: the id is the request's own, and the row
\* is what the command asks for.
LEMMA MintedIds ==
    ASSUME NEW r \in Requests, NEW table \in Tables
    PROVE  <<r, table>> \in Ids /\ <<r, table>>[2] = table
BY WorkspaceAssumption DEF Ids

LEMMA InsertWorkspaceRow ==
    ASSUME NEW r \in Requests, Domains, Admitted(r), pc[r] = "insertWorkspace"
    PROVE  /\ Target(r) = <<r, "workspace">> /\ Written(r) \in Row
           /\ Written(r).table = "workspace" /\ Written(r).user = cmd[r].user
<1>1. cmd[r].op = "createWorkspace" /\ cmd[r] \in Command /\ cmd[r].name \in Names
  BY DEF Admitted, OpsAt, Domains, Creations
<1>2. Target(r) = <<r, "workspace">>
  BY <1>1 DEF Target, Subject, Patches
<1> DEFINE s == SlugFor(cmd[r])
<1>3. s \in Slugs
  BY <1>1, TableAssumption DEF SlugFor, Command
<1> HIDE DEF s
<1>4. Written(r) = [Blank("workspace", Null) EXCEPT !.user = cmd[r].user,
                      !.name = cmd[r].name, !.slug = s]
  BY DEF Written, Patches, s
<1>5. cmd[r].user \in Users
  BY <1>1 DEF Command
<1> QED
  BY <1>1, <1>2, <1>3, <1>4, <1>5 DEF Blank, Row, Tables

LEMMA InsertDefaultRow ==
    ASSUME NEW r \in Requests, Domains, Admitted(r), pc[r] = "insertDefault"
    PROVE  /\ Target(r) = <<r, "folder">> /\ Written(r) \in Row
           /\ Written(r).table = "folder" /\ Written(r).user = Null
           /\ Written(r).workspace = <<r, "workspace">> /\ Written(r).isDefault
<1>1. Target(r) = <<r, "folder">> /\ <<r, "workspace">> \in Ids
  BY MintedIds DEF Target, Patches, Tables
<1>2. Written(r) = [Blank("folder", <<r, "workspace">>)
                      EXCEPT !.name = DefaultName, !.slug = DefaultSlug, !.isDefault = TRUE]
  BY DEF Written, Patches
<1> QED
  BY <1>1, <1>2, TableAssumption DEF Blank, Row, Tables

LEMMA InsertFolderRow ==
    ASSUME NEW r \in Requests, Typed(rows), Domains, Admitted(r), pc[r] = "insertFolder"
    PROVE  /\ Target(r) = <<r, "folder">> /\ Written(r) \in Row
           /\ Written(r).table = "folder" /\ Written(r).workspace = cmd[r].workspace
<1>1. cmd[r].op = "createFolder" /\ cmd[r] \in Command /\ cmd[r].name \in Names
      /\ cmd[r].workspace \in Ids
  BY DEF Admitted, OpsAt, Domains, Creations, Kept, Typed
<1>2. Target(r) = <<r, "folder">>
  BY <1>1 DEF Target, Subject, Patches
<1> DEFINE s == SlugFor(cmd[r])
<1>3. s \in Slugs
  BY <1>1, TableAssumption DEF SlugFor, Command
<1> HIDE DEF s
<1>4. Written(r) = [Blank("folder", cmd[r].workspace) EXCEPT !.name = cmd[r].name, !.slug = s]
  BY DEF Written, Patches, s
<1> QED
  BY <1>1, <1>2, <1>3, <1>4 DEF Blank, Row, Tables

\* A row a request files in its folder.
FilesRow(r, row, table) ==
    /\ row \in Row /\ row.table = table
    /\ row.workspace = cmd[r].workspace /\ row.parent = cmd[r].folder

LEMMA FiledRow ==
    ASSUME NEW r \in Requests, Typed(rows), Domains, Admitted(r),
           pc[r] \in {"insertWorkflow", "insertVariable", "insertCredential"}
    PROVE  LET table == Subject(cmd[r].op) IN
           /\ table \in Filed /\ Target(r) = <<r, table>> /\ FilesRow(r, Written(r), table)
<1> DEFINE table == Subject(cmd[r].op)
           c == cmd[r]
           filed == [Blank(table, c.workspace)
                       EXCEPT !.parent = c.folder, !.name = c.name, !.value = c.value]
<1>1. c \in Command /\ c.workspace \in Ids /\ c.folder \in Ids
      /\ c.op \in {"createWorkflow", "createVariable", "createCredential"}
  BY DEF Admitted, OpsAt, Domains, Kept, Typed
<1>2. table \in Filed
  BY <1>1 DEF Subject, Filed
<1>3. Target(r) = <<r, table>>
  BY DEF Target, Patches
<1>4. Written(r) = filed \/ Written(r) = [filed EXCEPT !.active = TRUE]
  BY DEF Written, Patches
<1> HIDE DEF table
<1>5. filed \in Row /\ filed.table = table /\ filed.workspace = c.workspace
      /\ filed.parent = c.folder
  BY <1>1, <1>2 DEF Blank, Row, Tables, Filed, Command
<1> HIDE DEF filed
<1>6. FilesRow(r, Written(r), table)
  BY <1>4, <1>5 DEF FilesRow, Row
<1> QED
  BY <1>2, <1>3, <1>6 DEF table

LEMMA InsertVersionRow ==
    ASSUME NEW r \in Requests, Typed(rows), Domains, Admitted(r), pc[r] = "insertVersion"
    PROVE  /\ Target(r) = <<r, "version">> /\ Written(r) \in Row
           /\ Written(r).table = "version" /\ Written(r).workspace = cmd[r].workspace
           /\ Written(r).parent = <<r, "workflow">>
<1>1. Target(r) = <<r, "version">> /\ <<r, "workflow">> \in Ids
  BY MintedIds DEF Target, Patches, Tables
<1>2. Written(r) = [Blank("version", cmd[r].workspace) EXCEPT !.parent = <<r, "workflow">>]
  BY DEF Written, Patches
<1>3. cmd[r].workspace \in Ids
  BY DEF Admitted, OpsAt, Kept, Typed
<1> QED
  BY <1>1, <1>2, <1>3 DEF Blank, Row, Tables

\* The row keeps what is in no SET clause.
Sets(new, old, columns) ==
    /\ new \in Row
    /\ \A column \in DOMAIN old \ columns : new[column] = old[column]

\* What a statement of r sees of its own rows, and of the others.
LEMMA ViewIs ==
    ASSUME NEW r \in Requests
    PROVE  /\ DOMAIN View(r) = DOMAIN rows \cup DOMAIN draft[r]
           /\ \A id \in DOMAIN draft[r] : View(r)[id] = draft[r][id]
           /\ \A id \in DOMAIN rows \ DOMAIN draft[r] : View(r)[id] = rows[id]
BY OverIs DEF View

LEMMA PointVersionRow ==
    ASSUME NEW r \in Requests, Typed(rows), Domains, Admitted(r), Extent(r),
           pc[r] = "pointVersion"
    PROVE  LET old == draft[r][<<r, "workflow">>] IN
           /\ Target(r) = <<r, "workflow">> /\ <<r, "workflow">> \in DOMAIN draft[r]
           /\ Sets(Written(r), old, {"current"})
           /\ Written(r).current = <<r, "version">>
<1> DEFINE old == draft[r][<<r, "workflow">>]
<1>1. cmd[r].op = "createWorkflow"
  BY DEF Admitted, OpsAt
<1>2. Target(r) = <<r, "workflow">>
  BY <1>1 DEF Target, Patches, Subject
<1>3. <<r, "workflow">> \in DOMAIN draft[r] /\ <<r, "version">> \in Ids /\ old \in Row
  BY MintedIds DEF Extent, Domains, Typed, Tables
<1>4. Written(r) = [old EXCEPT !.current = <<r, "version">>]
  BY <1>2, <1>3, ViewIs DEF Written, Patches
<1> QED
  BY <1>2, <1>3, <1>4 DEF Row, Sets

LEMMA LockFolderRow ==
    ASSUME NEW r \in Requests, Typed(rows), Domains, Admitted(r), Extent(r),
           pc[r] = "lockFolder"
    PROVE  /\ Target(r) = cmd[r].folder /\ cmd[r].folder \in DOMAIN rows
           /\ Written(r) = rows[cmd[r].folder]
<1>0. cmd[r].op = "renameFolder"
  BY DEF Admitted, OpsAt
<1>1. Target(r) = cmd[r].folder /\ cmd[r].folder \in DOMAIN rows
  BY <1>0 DEF Target, Patches, Admitted, Kept
<1>2. DOMAIN draft[r] = {}
  BY EmptyIs DEF Extent, Opened
<1>3. Written(r) = View(r)[cmd[r].folder]
  BY <1>1 DEF Written, Patches
<1> QED
  BY <1>1, <1>2, <1>3, ViewIs

LEMMA RenameRow ==
    ASSUME NEW r \in Requests, Typed(rows), Domains, Admitted(r), Extent(r),
           pc[r] = "rename"
    PROVE  LET old == draft[r][cmd[r].folder] IN
           /\ Target(r) = cmd[r].folder /\ DOMAIN draft[r] = {cmd[r].folder}
           /\ Sets(Written(r), old, {"name", "isDefault"})
           /\ Written(r).isDefault = (old.isDefault \/ cmd[r].makeDefault)
<1> DEFINE old == draft[r][cmd[r].folder]
           flag == old.isDefault \/ cmd[r].makeDefault
<1>1. cmd[r].op = "renameFolder" /\ cmd[r] \in Command /\ cmd[r].name \in Names
  BY DEF Admitted, OpsAt, Domains, Creations
<1>2. Target(r) = cmd[r].folder
  BY DEF Target, Patches
<1>3. DOMAIN draft[r] = {cmd[r].folder} /\ old \in Row
  BY DEF Extent, Domains, Typed
<1>4. View(r)[Target(r)] = old
  <2>1. View(r)[cmd[r].folder] = old
    BY <1>3, ViewIs
  <2> QED
    BY <1>2, <2>1
<1>5. Written(r) = [old EXCEPT !.name = cmd[r].name, !.isDefault = @ \/ cmd[r].makeDefault]
  BY <1>4, Zenon DEF Written, Patches
<1>6. flag \in BOOLEAN
  BY <1>1, <1>3 DEF Row, Command
<1>7. [old EXCEPT !.name = cmd[r].name, !.isDefault = @ \/ cmd[r].makeDefault]
        = [old EXCEPT !.name = cmd[r].name, !.isDefault = flag]
  BY <1>3 DEF Row
<1> HIDE DEF flag
<1>8. Sets(Written(r), old, {"name", "isDefault"}) /\ Written(r).isDefault = flag
  BY <1>1, <1>3, <1>5, <1>6, <1>7 DEF Row, Sets
<1> QED
  BY <1>2, <1>3, <1>8 DEF flag

LEMMA PatchRow ==
    ASSUME NEW r \in Requests, Typed(rows), Domains, Admitted(r), Extent(r),
           pc[r] \in Patches, Matches(r)
    PROVE  /\ Target(r) = cmd[r].target /\ cmd[r].target \in DOMAIN rows
           /\ rows[cmd[r].target].table \in Filed
           /\ rows[cmd[r].target].parent = cmd[r].folder
           /\ Sets(Written(r), rows[cmd[r].target], {"name", "value"})
<1> DEFINE old == rows[cmd[r].target]
           name == Supplied(cmd[r].name, old.name)
           value == Supplied(cmd[r].value, old.value)
<1>1. /\ cmd[r].target \in DOMAIN rows /\ old \in Row /\ cmd[r] \in Command
      /\ old.table = Subject(cmd[r].op) /\ old.parent = cmd[r].folder
  BY DEF Matches, Domains, Typed, Admitted
<1>2. old.table \in Filed
  BY <1>1 DEF Admitted, OpsAt, Patches, Subject, Filed
<1>3. Target(r) = cmd[r].target
  BY DEF Target, Patches
<1>4. DOMAIN draft[r] = {}
  BY EmptyIs DEF Extent, Opened, Patches
<1>5. View(r)[cmd[r].target] = old
  BY <1>1, <1>4, ViewIs
<1>6. Written(r) = [old EXCEPT !.name = name, !.value = value]
  BY <1>3, <1>5 DEF Written, Patches
<1>7. name \in Names \cup {Null} /\ value \in Values \cup {Null}
  BY <1>1 DEF Supplied, Row, Command
<1> HIDE DEF name, value
<1>8. Sets(Written(r), old, {"name", "value"})
  BY <1>1, <1>6, <1>7 DEF Row, Sets
<1> QED
  BY <1>1, <1>2, <1>3, <1>8

-----------------------------------------------------------------------------
(* What a step leaves to the requests that do not take it *)

\* Workspaces and folders stay, each with its workspace and its owner.
Anchored ==
    \A id \in DOMAIN rows : rows[id].table \in {"workspace", "folder"} =>
        /\ id \in DOMAIN rows' /\ rows'[id].table = rows[id].table
        /\ rows'[id].workspace = rows[id].workspace /\ rows'[id].user = rows[id].user

LEMMA AdmittedStays ==
    ASSUME NEW q \in Requests, Admitted(q), Anchored,
           q \in DOMAIN cmd', cmd'[q] = cmd[q], cmd[q].op \in OpsAt(pc'[q])
    PROVE  Admitted(q)'
BY DEF Admitted, Anchored, Kept, OpsAt

\* Nobody writes the rows another transaction holds, nor mints its ids.
LEMMA DraftStays ==
    ASSUME NEW q \in Requests, DraftSound(q), Anchored,
           pc'[q] = pc[q], cmd'[q] = cmd[q] \/ pc[q] \notin Running,
           draft'[q] = draft[q], targets'[q] = targets[q],
           \A id \in DOMAIN draft[q] \cap DOMAIN rows' :
              id \in DOMAIN rows /\ rows'[id].isDefault = rows[id].isDefault
    PROVE  DraftSound(q)'
<1>1. CASE pc[q] \in Opened
  <2>1. cmd'[q] = cmd[q]
    BY <1>1 DEF Opened, Running, TxPoints
  <2>2. Extent(q)'
    BY <2>1 DEF DraftSound, Extent
  <2>3. Content(q)'
    BY <1>1, <2>1 DEF DraftSound, Content, HoldsFolder, Anchored, Kept
  <2>4. KeepsADefault(q)'
    BY <1>1, <2>1 DEF DraftSound, KeepsADefault
  <2>5. Visits(q)'
    BY <1>1, <2>1 DEF DraftSound, Visits, Anchored, Kept
  <2> QED
    BY <1>1, <2>2, <2>3, <2>4, <2>5 DEF DraftSound
<1>2. CASE pc[q] \notin Opened
  BY <1>2 DEF DraftSound, Extent, Opened
<1> QED
  BY <1>1, <1>2

\* A step inside the transaction of r: only r's draft, its targets and its
\* point change.
Within(r, d, S, point) ==
    /\ DOMAIN draft' = Requests /\ draft'[r] = d
    /\ DOMAIN targets' = Requests /\ targets'[r] = S
    /\ \A q \in Requests \ {r} : draft'[q] = draft[q] /\ targets'[q] = targets[q]
    /\ Goto(r, point)
    /\ UNCHANGED <<rows, cmd>>

LEMMA WithinKeeps ==
    ASSUME TablesInv, NEW r \in Requests, pc[r] \in Running,
           NEW d, Typed(d), NEW S \in SUBSET Ids,
           NEW point \in Running \cup Finished,
           Within(r, d, S, point),
           point \in Running => cmd[r].op \in OpsAt(point),
           \A q \in Requests \ {r} : DOMAIN d \cap DOMAIN draft[q] = {},
           DraftSound(r)'
    PROVE  TablesInv'
<1> USE DEF TablesInv
<1>1. /\ draft'[r] = d /\ targets'[r] = S /\ pc'[r] = point /\ cmd' = cmd /\ rows' = rows
      /\ DOMAIN draft' = Requests /\ DOMAIN targets' = Requests
      /\ pc' \in [Requests -> {"idle"} \cup Running \cup Finished]
      /\ \A q \in Requests \ {r} :
           draft'[q] = draft[q] /\ targets'[q] = targets[q] /\ pc'[q] = pc[q]
  BY DEF Within, Goto, Domains
<1>2. Anchored
  BY <1>1 DEF Anchored
<1>3. Domains'
  BY <1>1 DEF Domains
<1>4. AllAdmitted'
  <2> SUFFICES ASSUME NEW q \in Requests, pc'[q] \in Running PROVE Admitted(q)'
    BY DEF AllAdmitted
  <2>1. Admitted(q) /\ cmd[q].op \in OpsAt(pc'[q])
    BY <1>1 DEF AllAdmitted, Admitted
  <2> QED
    BY <1>1, <1>2, <2>1, AdmittedStays DEF Admitted
<1>5. DraftsSound'
  <2> SUFFICES ASSUME NEW q \in Requests \ {r} PROVE DraftSound(q)'
    BY DEF DraftsSound
  <2> QED
    BY <1>1, <1>2, DraftStays DEF DraftsSound
<1>6. Exclusive'
  <2>1. \A table \in Tables : <<r, table>> \notin DOMAIN rows
    BY DEF Exclusive, Running, TxPoints, OneShots, Patches, Erasures
  <2> QED
    BY <1>1, <2>1 DEF Exclusive
<1> QED
  BY <1>1, <1>3, <1>4, <1>5, <1>6 DEF Typed, Linked, Defaulted, Kept

-----------------------------------------------------------------------------
(* The statements of a transaction *)

\* A statement writes one row that nobody else holds.
LEMMA HoldKeeps ==
    ASSUME TablesInv, NEW r \in Requests, pc[r] \in Running,
           NEW id \in Ids, NEW row \in Row, row.table = id[2],
           NEW S \in SUBSET Ids, NEW point \in Running, cmd[r].op \in OpsAt(point),
           Within(r, Put(draft[r], id, row), S, point),
           Holders(r, id) = {}, DraftSound(r)'
    PROVE  TablesInv'
<1> DEFINE d == Put(draft[r], id, row)
<1>1. Typed(d)
  BY PutTyped DEF TablesInv, Domains
<1>2. \A q \in Requests \ {r} : DOMAIN d \cap DOMAIN draft[q] = {}
  <2>1. DOMAIN d = DOMAIN draft[r] \cup {id}
    BY PutIs
  <2> QED
    BY <2>1 DEF Holders, TablesInv, Exclusive
<1> HIDE DEF d
<1> QED
  BY <1>1, <1>2, WithinKeeps DEF d

LEMMA HeldIs ==
    ASSUME TablesInv, NEW r \in Requests, NEW id, NEW row, NEW S, NEW point,
           Within(r, Put(draft[r], id, row), S, point)
    PROVE  /\ DOMAIN draft'[r] = DOMAIN draft[r] \cup {id} /\ draft'[r][id] = row
           /\ \A x \in DOMAIN draft[r] \ {id} : draft'[r][x] = draft[r][x]
           /\ pc'[r] = point /\ targets'[r] = S /\ cmd' = cmd /\ rows' = rows
<1>1. draft'[r] = Put(draft[r], id, row)
  BY DEF Within
<1> QED
  BY <1>1 DEF Put, Within, Goto, TablesInv, Domains

LEMMA RollbackKeeps ==
    ASSUME TablesInv, NEW r \in Requests, pc[r] \in Running,
           NEW point \in Finished, Rollback(r), Goto(r, point), UNCHANGED cmd
    PROVE  TablesInv'
<1>1. Typed(Empty) /\ DOMAIN Empty = {}
  BY EmptyIs DEF Typed
<1>2. point \notin Running /\ point \notin Opened /\ point # "clear"
  BY DEF Running, Opened, Finished, TxPoints, OneShots, Patches, Erasures
<1>3. Within(r, Empty, {}, point) /\ pc'[r] = point
  BY DEF Within, Rollback, Goto, TablesInv, Domains
<1>4. DraftSound(r)'
  BY <1>2, <1>3 DEF DraftSound, Extent, Within, Opened
<1> QED
  BY <1>1, <1>2, <1>3, <1>4, WithinKeeps

\* A Stage that meets no unique violation, and one that does.
LEMMA StageIs ==
    ASSUME TablesInv, NEW r \in Requests, NEW next, Stage(r, next)
    PROVE  \/ /\ Awaits(r) = {} /\ ~Taken(r)
              /\ Within(r, Put(draft[r], Target(r), Written(r)), targets[r], next)
           \/ /\ Rollback(r) /\ Goto(r, Violation(r)) /\ UNCHANGED cmd
              /\ Violation(r) \in Finished
BY DEF Stage, Within, TablesInv, Domains, Violation, Finished, Goto

LEMMA RunningAdmitted ==
    ASSUME TablesInv, NEW r \in Requests, pc[r] \in Running
    PROVE  /\ Typed(rows) /\ Domains /\ Admitted(r) /\ DraftSound(r) /\ Extent(r)
           /\ targets[r] \in SUBSET Ids
           /\ pc[r] \in Opened => Content(r) /\ KeepsADefault(r) /\ Visits(r)
           /\ \A table \in Tables : <<r, table>> \notin DOMAIN rows
BY DEF TablesInv, AllAdmitted, DraftsSound, DraftSound, Domains, Exclusive,
       Running, TxPoints, OneShots, Patches, Erasures

LEMMA InsertWorkspaceKeeps ==
    ASSUME TablesInv, NEW r \in Requests, InsertWorkspace(r)
    PROVE  TablesInv'
<1>1. pc[r] = "insertWorkspace" /\ pc[r] \in Running
      /\ "insertDefault" \in Running
  BY DEF InsertWorkspace, At, Running, TxPoints
<1> DEFINE id == <<r, "workspace">>
           row == Written(r)
<1>2. /\ Target(r) = id /\ row \in Row /\ row.table = "workspace" /\ row.user = cmd[r].user
      /\ id \in Ids /\ id[2] = "workspace" /\ id \notin DOMAIN rows
      /\ cmd[r].op = "createWorkspace" /\ cmd[r].op \in OpsAt("insertDefault")
      /\ draft[r] = Empty /\ targets[r] = {}
  BY <1>1, RunningAdmitted, InsertWorkspaceRow, MintedIds
     DEF Tables, Admitted, OpsAt, Extent, Opened
<1> HIDE DEF row, id
<1>3. CASE Awaits(r) = {} /\ Within(r, Put(draft[r], id, row), targets[r], "insertDefault")
  <2>1. Holders(r, id) = {}
    BY <1>1, <1>2, <1>3 DEF Awaits, Patches
  <2>2. /\ DOMAIN draft'[r] = {id} /\ draft'[r][id] = row
        /\ pc'[r] = "insertDefault" /\ targets'[r] = {} /\ cmd' = cmd /\ rows' = rows
    <3>1. /\ DOMAIN draft'[r] = DOMAIN draft[r] \cup {id} /\ draft'[r][id] = row
          /\ \A x \in DOMAIN draft[r] \ {id} : draft'[r][x] = draft[r][x]
          /\ pc'[r] = "insertDefault" /\ targets'[r] = targets[r] /\ cmd' = cmd /\ rows' = rows
      BY <1>3, HeldIs
    <3> QED
      BY <1>1, <1>2, <1>3, <3>1, EmptyIs
  <2>3. Extent(r)'
    BY <2>2 DEF Extent, Opened, id
  <2>4. Content(r)' /\ KeepsADefault(r)' /\ Visits(r)'
    BY <1>2, <2>2 DEF Content, KeepsADefault, Visits, id
  <2> QED
    BY <1>1, <1>2, <1>3, <2>1, <2>3, <2>4, RunningAdmitted, HoldKeeps DEF DraftSound
<1> QED
  BY <1>1, <1>2, <1>3, StageIs, RollbackKeeps DEF InsertWorkspace, row

LEMMA InsertDefaultKeeps ==
    ASSUME TablesInv, NEW r \in Requests, InsertDefault(r)
    PROVE  TablesInv'
<1>1. pc[r] = "insertDefault" /\ pc[r] \in Running /\ pc[r] \in Opened
      /\ "commit" \in Running
  BY DEF InsertDefault, At, Running, TxPoints, Opened
<1> DEFINE w == <<r, "workspace">>
           id == <<r, "folder">>
           row == Written(r)
<1>2. Domains /\ Admitted(r) /\ Extent(r) /\ Content(r)
  BY <1>1, RunningAdmitted
<1>3. /\ Target(r) = id /\ row \in Row /\ row.table = "folder"
      /\ row.workspace = w /\ row.isDefault
  BY <1>1, <1>2, InsertDefaultRow
<1>4. id \in Ids /\ id[2] = "folder" /\ id \notin DOMAIN rows /\ w \notin DOMAIN rows
  BY <1>1, RunningAdmitted, MintedIds DEF Tables
<1>5. cmd[r].op = "createWorkspace" /\ cmd[r].op \in OpsAt("commit")
  BY <1>1, <1>2 DEF Admitted, OpsAt
<1>6. DOMAIN draft[r] = {w} /\ draft[r][w].user = cmd[r].user /\ targets[r] = {}
  BY <1>1, <1>2, <1>5 DEF Extent, Content
<1> HIDE DEF row
<1>7. CASE Awaits(r) = {} /\ Within(r, Put(draft[r], id, row), targets[r], "commit")
  <2>1. Holders(r, id) = {}
    BY <1>1, <1>3, <1>4, <1>5, <1>6, <1>7 DEF Awaits, Patches
  <2>2. /\ DOMAIN draft'[r] = {w, id} /\ draft'[r][id] = row /\ draft'[r][w] = draft[r][w]
        /\ pc'[r] = "commit" /\ targets'[r] = {} /\ cmd' = cmd /\ rows' = rows
    <3>1. /\ DOMAIN draft'[r] = DOMAIN draft[r] \cup {id} /\ draft'[r][id] = row
          /\ \A x \in DOMAIN draft[r] \ {id} : draft'[r][x] = draft[r][x]
          /\ pc'[r] = "commit" /\ targets'[r] = targets[r] /\ cmd' = cmd /\ rows' = rows
      BY <1>7, HeldIs
    <3> QED
      BY <1>1, <1>3, <1>4, <1>5, <1>6, <1>7, <3>1
  <2>3. Extent(r)'
    BY <1>3, <1>4, <1>5, <1>6, <2>2 DEF Extent, Opened
  <2>4. Content(r)' /\ KeepsADefault(r)' /\ Visits(r)'
    BY <1>3, <1>4, <1>5, <1>6, <2>2 DEF Content, KeepsADefault, Visits
  <2> QED
    BY <1>1, <1>3, <1>4, <1>5, <1>6, <1>7, <2>1, <2>3, <2>4, RunningAdmitted, HoldKeeps DEF DraftSound
<1> QED
  BY <1>1, <1>3, <1>4, <1>5, <1>6, <1>7, StageIs, RollbackKeeps DEF InsertDefault, row

LEMMA InsertWorkflowKeeps ==
    ASSUME TablesInv, NEW r \in Requests, InsertWorkflow(r)
    PROVE  TablesInv'
<1>1. pc[r] = "insertWorkflow" /\ pc[r] \in Running /\ "insertVersion" \in Running
  BY DEF InsertWorkflow, At, Running, TxPoints
<1>2. cmd[r].op = "createWorkflow" /\ cmd[r].op \in OpsAt("insertVersion")
  BY <1>1, RunningAdmitted DEF Admitted, OpsAt
<1> DEFINE id == <<r, "workflow">>
           row == Written(r)
<1>3. Subject(cmd[r].op) = "workflow"
  BY <1>2 DEF Subject
<1>4. Target(r) = id /\ FilesRow(r, row, "workflow")
  BY <1>1, <1>3, RunningAdmitted, FiledRow
<1>5. /\ row \in Row /\ row.table = "workflow"
      /\ row.workspace = cmd[r].workspace /\ row.parent = cmd[r].folder
      /\ id \in Ids /\ id[2] = "workflow" /\ id \notin DOMAIN rows
      /\ draft[r] = Empty /\ targets[r] = {}
  BY <1>1, <1>4, RunningAdmitted, MintedIds DEF Tables, Extent, Opened, FilesRow
<1> HIDE DEF row, id
<1>6. CASE Awaits(r) = {} /\ Within(r, Put(draft[r], id, row), targets[r], "insertVersion")
  <2>1. Holders(r, id) = {}
    BY <1>1, <1>4, <1>6 DEF Awaits, Patches
  <2>2. /\ DOMAIN draft'[r] = {id} /\ draft'[r][id] = row
        /\ pc'[r] = "insertVersion" /\ targets'[r] = {} /\ cmd' = cmd /\ rows' = rows
    <3>1. /\ DOMAIN draft'[r] = DOMAIN draft[r] \cup {id} /\ draft'[r][id] = row
          /\ \A x \in DOMAIN draft[r] \ {id} : draft'[r][x] = draft[r][x]
          /\ pc'[r] = "insertVersion" /\ targets'[r] = targets[r] /\ cmd' = cmd /\ rows' = rows
      BY <1>6, HeldIs
    <3> QED
      BY <1>1, <1>5, <1>6, <3>1, EmptyIs
  <2>3. Extent(r)'
    BY <2>2 DEF Extent, Opened, id
  <2>4. Content(r)' /\ KeepsADefault(r)' /\ Visits(r)'
    BY <1>2, <1>5, <2>2 DEF Content, KeepsADefault, Visits, id
  <2> QED
    BY <1>1, <1>2, <1>5, <1>6, <2>1, <2>3, <2>4, RunningAdmitted, HoldKeeps DEF DraftSound
<1> QED
  BY <1>1, <1>4, <1>6, StageIs, RollbackKeeps DEF InsertWorkflow, row

LEMMA InsertVersionKeeps ==
    ASSUME TablesInv, NEW r \in Requests, InsertVersion(r)
    PROVE  TablesInv'
<1>1. pc[r] = "insertVersion" /\ pc[r] \in Running /\ pc[r] \in Opened
      /\ "pointVersion" \in Running
  BY DEF InsertVersion, At, Running, TxPoints, Opened
<1> DEFINE w == <<r, "workflow">>
           id == <<r, "version">>
           row == Written(r)
<1>2. Typed(rows) /\ Domains /\ Admitted(r) /\ Extent(r) /\ Content(r)
  BY <1>1, RunningAdmitted
<1>3. /\ Target(r) = id /\ row \in Row /\ row.table = "version"
      /\ row.workspace = cmd[r].workspace /\ row.parent = w
  BY <1>1, <1>2, InsertVersionRow
<1>4. id \in Ids /\ id[2] = "version" /\ id \notin DOMAIN rows /\ w \notin DOMAIN rows
  BY <1>1, RunningAdmitted, MintedIds DEF Tables
<1>5. cmd[r].op = "createWorkflow" /\ cmd[r].op \in OpsAt("pointVersion")
  BY <1>1, <1>2 DEF Admitted, OpsAt
<1>6. /\ DOMAIN draft[r] = {w} /\ draft[r][w].workspace = cmd[r].workspace
      /\ draft[r][w].parent = cmd[r].folder /\ targets[r] = {}
  BY <1>1, <1>2, <1>5 DEF Extent, Content
<1> HIDE DEF row
<1>7. CASE Awaits(r) = {} /\ Within(r, Put(draft[r], id, row), targets[r], "pointVersion")
  <2>1. Holders(r, id) = {}
    BY <1>1, <1>3, <1>4, <1>5, <1>6, <1>7 DEF Awaits, Patches
  <2>2. /\ DOMAIN draft'[r] = {w, id} /\ draft'[r][id] = row /\ draft'[r][w] = draft[r][w]
        /\ pc'[r] = "pointVersion" /\ targets'[r] = {} /\ cmd' = cmd /\ rows' = rows
    <3>1. /\ DOMAIN draft'[r] = DOMAIN draft[r] \cup {id} /\ draft'[r][id] = row
          /\ \A x \in DOMAIN draft[r] \ {id} : draft'[r][x] = draft[r][x]
          /\ pc'[r] = "pointVersion" /\ targets'[r] = targets[r] /\ cmd' = cmd /\ rows' = rows
      BY <1>7, HeldIs
    <3> QED
      BY <1>1, <1>3, <1>4, <1>5, <1>6, <1>7, <3>1
  <2>3. Extent(r)'
    BY <1>3, <1>4, <1>5, <1>6, <2>2 DEF Extent, Opened
  <2>4. Content(r)' /\ KeepsADefault(r)' /\ Visits(r)'
    BY <1>3, <1>4, <1>5, <1>6, <2>2 DEF Content, KeepsADefault, Visits
  <2> QED
    BY <1>1, <1>3, <1>4, <1>5, <1>6, <1>7, <2>1, <2>3, <2>4, RunningAdmitted, HoldKeeps DEF DraftSound
<1> QED
  BY <1>1, <1>3, <1>4, <1>5, <1>6, <1>7, StageIs, RollbackKeeps DEF InsertVersion, row

LEMMA PointVersionKeeps ==
    ASSUME TablesInv, NEW r \in Requests, PointVersion(r)
    PROVE  TablesInv'
<1>1. pc[r] = "pointVersion" /\ pc[r] \in Running /\ pc[r] \in Opened
      /\ "commit" \in Running
  BY DEF PointVersion, At, Running, TxPoints, Opened
<1> DEFINE id == <<r, "workflow">>
           v == <<r, "version">>
           old == draft[r][id]
           row == Written(r)
<1>2. Typed(rows) /\ Domains /\ Admitted(r) /\ Extent(r) /\ Content(r)
  BY <1>1, RunningAdmitted
<1>3. id \in Ids /\ id[2] = "workflow" /\ id \notin DOMAIN rows /\ v \notin DOMAIN rows
  BY <1>1, RunningAdmitted, MintedIds DEF Tables
<1>4. cmd[r].op = "createWorkflow" /\ cmd[r].op \in OpsAt("commit")
  BY <1>1, <1>2 DEF Admitted, OpsAt
<1>5. DOMAIN draft[r] = {id, v} /\ targets[r] = {}
  BY <1>1, <1>2 DEF Extent
<1>6. /\ old \in Row /\ old.table = "workflow"
      /\ old.workspace = cmd[r].workspace /\ old.parent = cmd[r].folder
      /\ draft[r][v].workspace = cmd[r].workspace /\ draft[r][v].parent = id
  BY <1>2, <1>3, <1>4, <1>5 DEF Content, Domains, Typed
<1>7. /\ Target(r) = id /\ Sets(row, old, {"current"}) /\ row.current = v
  BY <1>1, RunningAdmitted, PointVersionRow
<1>8. /\ row \in Row /\ row.table = "workflow"
      /\ row.workspace = cmd[r].workspace /\ row.parent = cmd[r].folder
  BY <1>3, <1>4, <1>5, <1>6, <1>7 DEF Sets, Row
<1> HIDE DEF row, old
<1>9. CASE Awaits(r) = {} /\ Within(r, Put(draft[r], id, row), targets[r], "commit")
  <2>1. Holders(r, id) = {}
    BY <1>1, <1>7, <1>9 DEF Awaits, Patches
  <2>2. /\ DOMAIN draft'[r] = {id, v} /\ draft'[r][id] = row /\ draft'[r][v] = draft[r][v]
        /\ pc'[r] = "commit" /\ targets'[r] = {} /\ cmd' = cmd /\ rows' = rows
    <3>1. /\ DOMAIN draft'[r] = DOMAIN draft[r] \cup {id} /\ draft'[r][id] = row
          /\ \A x \in DOMAIN draft[r] \ {id} : draft'[r][x] = draft[r][x]
          /\ pc'[r] = "commit" /\ targets'[r] = targets[r] /\ cmd' = cmd /\ rows' = rows
      BY <1>9, HeldIs
    <3> QED
      BY <1>1, <1>3, <1>4, <1>5, <1>6, <1>9, <3>1
  <2>3. Extent(r)'
    BY <1>3, <1>4, <1>5, <1>6, <2>2 DEF Extent, Opened
  <2>4. Content(r)' /\ KeepsADefault(r)' /\ Visits(r)'
    BY <1>3, <1>4, <1>5, <1>6, <1>7, <1>8, <2>2 DEF Content, KeepsADefault, Visits
  <2> QED
    BY <1>1, <1>3, <1>4, <1>5, <1>6, <1>8, <1>9, <2>1, <2>3, <2>4, RunningAdmitted, HoldKeeps DEF DraftSound
<1> QED
  BY <1>1, <1>7, <1>9, StageIs, RollbackKeeps DEF PointVersion, row

-----------------------------------------------------------------------------
(* The statements of a rename *)

LEMMA LockFolderKeeps ==
    ASSUME TablesInv, NEW r \in Requests, LockFolder(r)
    PROVE  TablesInv'
<1>1. pc[r] = "lockFolder" /\ pc[r] \in Running /\ "rename" \in Running
  BY DEF LockFolder, At, Running, TxPoints
<1>2. Typed(rows) /\ Domains /\ Admitted(r) /\ Extent(r)
  BY <1>1, RunningAdmitted
<1> DEFINE id == cmd[r].folder
           row == rows[id]
<1>3. Target(r) = id /\ Written(r) = row
  BY <1>1, <1>2, LockFolderRow
<1>4. cmd[r].op = "renameFolder" /\ cmd[r].op \in OpsAt("rename")
  BY <1>1, <1>2 DEF Admitted, OpsAt
<1>5. /\ id \in Kept(rows, "folder") /\ row.workspace = cmd[r].workspace
      /\ id \in Ids /\ row \in Row /\ row.table = id[2]
      /\ draft[r] = Empty /\ targets[r] = {}
  BY <1>1, <1>2, <1>4 DEF Admitted, Typed, Kept, Extent, Opened
<1>6. Holders(r, id) = {}
  BY <1>1, <1>3 DEF LockFolder, Awaits
<1>7. Within(r, Put(draft[r], id, row), targets[r], "rename")
  BY <1>2, <1>3 DEF LockFolder, Within, Domains
<1>8. /\ DOMAIN draft'[r] = DOMAIN draft[r] \cup {id} /\ draft'[r][id] = row
      /\ \A x \in DOMAIN draft[r] \ {id} : draft'[r][x] = draft[r][x]
      /\ pc'[r] = "rename" /\ targets'[r] = targets[r] /\ cmd' = cmd /\ rows' = rows
  BY <1>7, HeldIs
<1>9. DOMAIN draft'[r] = {id}
  BY <1>5, <1>8, EmptyIs
<1>10. Extent(r)' /\ Content(r)' /\ KeepsADefault(r)' /\ Visits(r)'
  <2>1. Extent(r)' /\ KeepsADefault(r)' /\ Visits(r)'
    BY <1>5, <1>8, <1>9 DEF Extent, Opened, KeepsADefault, Visits
  <2>2. Content(r)'
    BY <1>4, <1>5, <1>8, <1>9 DEF Content, HoldsFolder, Kept
  <2> QED
    BY <2>1, <2>2
<1> HIDE DEF row
<1> QED
  BY <1>1, <1>4, <1>5, <1>6, <1>7, <1>10, RunningAdmitted, HoldKeeps DEF DraftSound

LEMMA RenameKeeps ==
    ASSUME TablesInv, NEW r \in Requests, Rename(r)
    PROVE  TablesInv'
<1>1. pc[r] = "rename" /\ pc[r] \in Running /\ pc[r] \in Opened
  BY DEF Rename, At, Running, TxPoints, Opened
<1>2. /\ Typed(rows) /\ Domains /\ Admitted(r) /\ Extent(r)
      /\ Content(r) /\ KeepsADefault(r) /\ Visits(r)
  BY <1>1, RunningAdmitted
<1> DEFINE id == cmd[r].folder
           old == draft[r][id]
           row == Written(r)
<1>3. /\ Target(r) = id /\ DOMAIN draft[r] = {id}
      /\ Sets(row, old, {"name", "isDefault"})
      /\ row.isDefault = (old.isDefault \/ cmd[r].makeDefault)
  BY <1>1, <1>2, RenameRow
<1>4. cmd[r].op = "renameFolder"
  BY <1>1, <1>2 DEF Admitted, OpsAt
<1>5. /\ id \in Ids /\ old \in Row /\ old.table = id[2] /\ HoldsFolder(r, id) /\ targets[r] = {}
  BY <1>1, <1>2, <1>3, <1>4 DEF Domains, Typed, Content, Extent
<1>6. row \in Row /\ row.table = id[2] /\ row.workspace = old.workspace /\ row.user = old.user
  BY <1>3, <1>5 DEF Sets, Row
<1> HIDE DEF row
<1>7. ASSUME NEW next \in {"findDefaults", "commit"},
             next = "findDefaults" => cmd[r].makeDefault,
             Awaits(r) = {}, Within(r, Put(draft[r], id, row), targets[r], next)
      PROVE  TablesInv'
  <2>1. Holders(r, id) = {}
    BY <1>1, <1>3, <1>7 DEF Awaits, Patches
  <2>2. /\ DOMAIN draft'[r] = DOMAIN draft[r] \cup {id} /\ draft'[r][id] = row
        /\ \A x \in DOMAIN draft[r] \ {id} : draft'[r][x] = draft[r][x]
        /\ pc'[r] = next /\ targets'[r] = targets[r] /\ cmd' = cmd /\ rows' = rows
    BY <1>7, HeldIs
  <2>3. DOMAIN draft'[r] = {id}
    BY <1>3, <2>2
  <2>4. Extent(r)'
    BY <1>4, <1>5, <1>7, <2>2, <2>3 DEF Extent, Opened
  <2>5. Content(r)'
    BY <1>4, <1>5, <1>6, <2>2, <2>3 DEF Content, HoldsFolder, Kept
  <2>6. KeepsADefault(r)'
    BY <1>2, <1>3, <2>2, <2>3 DEF KeepsADefault
  <2>7. Visits(r)'
    BY <1>3, <1>5, <1>7, <2>2, <2>3 DEF Visits
  <2>8. next \in Running /\ cmd[r].op \in OpsAt(next)
    BY <1>4 DEF Running, TxPoints, OpsAt, AllOps
  <2> QED
    BY <1>1, <1>5, <1>6, <1>7, <2>1, <2>4, <2>5, <2>6, <2>7, <2>8,
       RunningAdmitted, HoldKeeps DEF DraftSound
<1> DEFINE next == IF cmd[r].makeDefault THEN "findDefaults" ELSE "commit"
<1>8. next \in {"findDefaults", "commit"} /\ (next = "findDefaults" => cmd[r].makeDefault)
  OBVIOUS
<1>9. Stage(r, next)
  BY DEF Rename
<1> HIDE DEF next
<1> QED
  BY <1>1, <1>3, <1>7, <1>8, <1>9, StageIs, RollbackKeeps DEF row

LEMMA FindDefaultsKeeps ==
    ASSUME TablesInv, NEW r \in Requests, FindDefaults(r)
    PROVE  TablesInv'
<1>1. pc[r] = "findDefaults" /\ pc[r] \in Running /\ pc[r] \in Opened /\ "clear" \in Running
  BY DEF FindDefaults, At, Running, TxPoints, Opened
<1>2. /\ Typed(rows) /\ Domains /\ Admitted(r) /\ Extent(r)
      /\ Content(r) /\ KeepsADefault(r) /\ Visits(r)
  BY <1>1, RunningAdmitted
<1>3. cmd[r].op \in OpsAt("clear")
  BY <1>1, <1>2 DEF Admitted, OpsAt
<1> DEFINE S == {id \in DOMAIN View(r) \ {cmd[r].folder} :
                    /\ View(r)[id].table = "folder"
                    /\ View(r)[id].workspace = cmd[r].workspace
                    /\ View(r)[id].isDefault}
<1>4. DOMAIN draft[r] = {cmd[r].folder}
  BY <1>1, <1>2 DEF Extent
<1>5. \A id \in S : /\ id \notin DOMAIN draft[r] /\ id \in Ids /\ id \in Kept(rows, "folder")
                    /\ rows[id].workspace = cmd[r].workspace
  BY <1>2, <1>4, ViewIs DEF Kept, Typed
<1>6. targets' = [targets EXCEPT ![r] = S] /\ Goto(r, "clear") /\ UNCHANGED <<rows, draft, cmd>>
  BY DEF FindDefaults
<1> HIDE DEF S
<1>7. Within(r, draft[r], S, "clear") /\ pc'[r] = "clear" /\ targets'[r] = S
  BY <1>2, <1>6 DEF Within, Goto, Domains
<1>8. Typed(draft[r]) /\ S \in SUBSET Ids
      /\ \A q \in Requests \ {r} : DOMAIN draft[r] \cap DOMAIN draft[q] = {}
  BY <1>2, <1>5 DEF Domains, TablesInv, Exclusive
<1>9. DraftSound(r)'
  <2>1. Extent(r)'
    BY <1>4, <1>6, <1>7 DEF Extent, Opened
  <2>2. Content(r)' /\ KeepsADefault(r)' /\ Visits(r)'
    BY <1>1, <1>2, <1>5, <1>6, <1>7 DEF Content, HoldsFolder, KeepsADefault, Visits, Kept
  <2> QED
    BY <2>1, <2>2 DEF DraftSound
<1> QED
  BY <1>1, <1>3, <1>7, <1>8, <1>9, WithinKeeps

LEMMA ClearDefaultKeeps ==
    ASSUME TablesInv, NEW r \in Requests, NEW id \in targets[r], ClearDefault(r, id)
    PROVE  TablesInv'
<1>1. pc[r] = "clear" /\ pc[r] \in Running /\ pc[r] \in Opened
  BY DEF ClearDefault, At, Running, TxPoints, Opened
<1>2. /\ Typed(rows) /\ Domains /\ Admitted(r) /\ Extent(r)
      /\ Content(r) /\ KeepsADefault(r) /\ Visits(r)
  BY <1>1, RunningAdmitted
<1>3. cmd[r].op = "renameFolder" /\ cmd[r].op \in OpsAt("clear")
  BY <1>1, <1>2 DEF Admitted, OpsAt
<1> DEFINE old == rows[id]
           row == [old EXCEPT !.isDefault = FALSE]
           S == targets[r] \ {id}
<1>4. /\ id \in Ids /\ id \in Kept(rows, "folder") /\ id \in DOMAIN rows
      /\ id \notin DOMAIN draft[r] /\ old.workspace = cmd[r].workspace
      /\ old \in Row /\ old.table = id[2]
  BY <1>2 DEF Visits, Kept, Typed
<1>5. /\ View(r)[id] = old /\ Goto(r, "clear") /\ Holders(r, id) = {}
      /\ targets' = [targets EXCEPT ![r] = S] /\ UNCHANGED <<rows, cmd>>
  BY <1>1, <1>2, <1>4, ViewIs DEF ClearDefault, Goto, Domains
<1>6. /\ row \in Row /\ row.table = id[2] /\ row.workspace = cmd[r].workspace
      /\ row.user = old.user
  BY <1>4 DEF Row
<1>7. draft[r][cmd[r].folder].isDefault /\ cmd[r].folder \in DOMAIN draft[r]
  BY <1>1, <1>2 DEF Visits, Extent
<1> HIDE DEF row, S
<1>8. CASE draft' = [draft EXCEPT ![r] = Put(@, id, row)]
  <2>1. Within(r, Put(draft[r], id, row), S, "clear")
    BY <1>2, <1>5, <1>8 DEF Within, Domains
  <2>2. /\ DOMAIN draft'[r] = DOMAIN draft[r] \cup {id} /\ draft'[r][id] = row
        /\ \A x \in DOMAIN draft[r] \ {id} : draft'[r][x] = draft[r][x]
        /\ pc'[r] = "clear" /\ targets'[r] = S /\ cmd' = cmd /\ rows' = rows
    BY <2>1, HeldIs
  <2>3. Extent(r)'
    BY <1>7, <2>2 DEF Extent, Opened
  <2>4. Content(r)'
    BY <1>1, <1>2, <1>3, <1>4, <1>6, <2>2 DEF Content, HoldsFolder, Kept
  <2>5. KeepsADefault(r)'
    BY <1>4, <1>7, <2>2 DEF KeepsADefault
  <2>6. Visits(r)'
    BY <1>2, <1>4, <1>7, <2>2 DEF Visits, Kept, S
  <2>7. S \in SUBSET Ids
    BY <1>2 DEF Domains, S
  <2> QED
    BY <1>1, <1>3, <1>4, <1>5, <1>6, <2>1, <2>3, <2>4, <2>5, <2>6, <2>7, HoldKeeps DEF DraftSound
<1>9. CASE draft' = draft
  <2>1. Within(r, draft[r], S, "clear") /\ pc'[r] = "clear" /\ targets'[r] = S
    BY <1>2, <1>5, <1>9 DEF Within, Goto, Domains
  <2>2. DraftSound(r)'
    <3>1. Extent(r)'
      BY <1>5, <1>7, <1>9, <2>1 DEF Extent, Opened
    <3>2. Content(r)' /\ KeepsADefault(r)' /\ Visits(r)'
      BY <1>2, <1>5, <1>7, <1>9, <2>1 DEF Content, HoldsFolder, KeepsADefault, Visits, Kept, S
    <3> QED
      BY <3>1, <3>2 DEF DraftSound
  <2>3. Typed(draft[r]) /\ S \in SUBSET Ids
        /\ \A q \in Requests \ {r} : DOMAIN draft[r] \cap DOMAIN draft[q] = {}
    BY <1>2 DEF Domains, S, TablesInv, Exclusive
  <2> QED
    BY <1>1, <1>3, <2>1, <2>2, <2>3, WithinKeeps
<1> QED
  BY <1>5, <1>8, <1>9 DEF ClearDefault, row

LEMMA ClearedKeeps ==
    ASSUME TablesInv, NEW r \in Requests, Cleared(r)
    PROVE  TablesInv'
<1>1. pc[r] = "clear" /\ pc[r] \in Running /\ pc[r] \in Opened /\ "commit" \in Running
  BY DEF Cleared, At, Running, TxPoints, Opened
<1>2. /\ Typed(rows) /\ Domains /\ Admitted(r) /\ Extent(r)
      /\ Content(r) /\ KeepsADefault(r) /\ Visits(r)
  BY <1>1, RunningAdmitted
<1>3. cmd[r].op = "renameFolder" /\ cmd[r].op \in OpsAt("commit")
  BY <1>1, <1>2 DEF Admitted, OpsAt
<1>4. Within(r, draft[r], {}, "commit") /\ pc'[r] = "commit" /\ targets'[r] = {}
      /\ UNCHANGED <<rows, draft, cmd>>
  BY <1>2 DEF Cleared, Within, Goto, Domains
<1>5. Typed(draft[r]) /\ \A q \in Requests \ {r} : DOMAIN draft[r] \cap DOMAIN draft[q] = {}
  BY <1>2 DEF Domains, TablesInv, Exclusive
<1>6. DraftSound(r)'
  <2>1. Extent(r)'
    BY <1>1, <1>2, <1>3, <1>4 DEF Extent, Opened
  <2>2. Content(r)' /\ KeepsADefault(r)' /\ Visits(r)'
    BY <1>2, <1>3, <1>4 DEF Content, HoldsFolder, KeepsADefault, Visits, Kept
  <2> QED
    BY <2>1, <2>2 DEF DraftSound
<1> QED
  BY <1>1, <1>3, <1>4, <1>5, <1>6, WithinKeeps

-----------------------------------------------------------------------------
(* The steps that change the committed rows *)

\* r ends its transaction, and writes no row another one holds.
LEMMA EndedKeeps ==
    ASSUME TablesInv, NEW r \in Requests, pc[r] \in Running,
           Goto(r, "done"), UNCHANGED <<targets, cmd>>, targets[r] = {},
           DOMAIN draft' = Requests, draft'[r] = Empty,
           \A q \in Requests \ {r} : draft'[q] = draft[q],
           Typed(rows'), Linked(rows'), Defaulted(rows'), Anchored,
           \A q \in Requests \ {r} : \A id \in DOMAIN draft[q] \cap DOMAIN rows' :
              id \in DOMAIN rows /\ rows'[id].isDefault = rows[id].isDefault,
           \A q \in Requests \ {r}, table \in Tables :
              <<q, table>> \in DOMAIN rows' => <<q, table>> \in DOMAIN rows
    PROVE  TablesInv'
<1> USE DEF TablesInv
<1>1. /\ pc' \in [Requests -> {"idle"} \cup Running \cup Finished]
      /\ pc'[r] = "done" /\ cmd' = cmd /\ targets' = targets
      /\ \A q \in Requests \ {r} : pc'[q] = pc[q]
  BY DEF Goto, Domains, Finished
<1>2. Domains'
  BY <1>1, EmptyIs DEF Domains, Typed
<1>3. AllAdmitted'
  <2> SUFFICES ASSUME NEW q \in Requests, pc'[q] \in Running PROVE Admitted(q)'
    BY DEF AllAdmitted
  <2>1. q # r
    BY <1>1 DEF Running, TxPoints, OneShots, Patches, Erasures
  <2>2. Admitted(q)
    BY <1>1, <2>1 DEF AllAdmitted
  <2> QED
    BY <1>1, <2>1, <2>2, AdmittedStays DEF Admitted
<1>4. DraftsSound'
  <2> SUFFICES ASSUME NEW q \in Requests PROVE DraftSound(q)'
    BY DEF DraftsSound
  <2>1. CASE q = r
    BY <1>1, <2>1 DEF DraftSound, Extent, Opened
  <2>2. CASE q # r
    BY <1>1, <2>2, DraftStays DEF DraftsSound
  <2> QED
    BY <2>1, <2>2
<1>5. Exclusive'
  <2>1. \A q, p \in Requests : q # p => DOMAIN draft'[q] \cap DOMAIN draft'[p] = {}
    BY EmptyIs DEF Exclusive
  <2>2. \A q \in Requests, table \in Tables : <<q, table>> \in DOMAIN rows' => pc'[q] = "done"
    BY <1>1 DEF Exclusive
  <2> QED
    BY <2>1, <2>2 DEF Exclusive
<1> QED
  BY <1>2, <1>3, <1>4, <1>5

\* The foreign keys of a row hold while the rows it refers to stay as they are.
LEMMA LinkStays ==
    ASSUME NEW t, NEW u, NEW id \in DOMAIN t, Typed(t), LinkedRow(t, id),
           \A x \in DOMAIN t :
              /\ x \in DOMAIN u /\ u[x].table = t[x].table
              /\ u[x].user = t[x].user /\ u[x].workspace = t[x].workspace
              /\ t[x].table # "folder" => u[x].parent = t[x].parent /\ u[x].current = t[x].current
    PROVE  LinkedRow(u, id)
<1>1. /\ id \in DOMAIN u /\ u[id].table = t[id].table
      /\ u[id].user = t[id].user /\ u[id].workspace = t[id].workspace
      /\ t[id].table # "folder" => u[id].parent = t[id].parent /\ u[id].current = t[id].current
  OBVIOUS
<1>2. \A table : \A x \in Kept(t, table) :
        /\ x \in Kept(u, table) /\ u[x].workspace = t[x].workspace
        /\ table # "folder" => u[x].parent = t[x].parent
  BY DEF Kept
<1> QED
  BY <1>1, <1>2 DEF LinkedRow, Filed

LEMMA DefaultStays ==
    ASSUME NEW t, NEW u, NEW w \in Kept(t, "workspace"), Defaulted(t),
           \A x \in Kept(t, "folder") :
              x \in Kept(u, "folder") /\ u[x].workspace = t[x].workspace
                /\ (t[x].isDefault => u[x].isDefault)
    PROVE  \E f \in Kept(u, "folder") : u[f].workspace = w /\ u[f].isDefault
BY DEF Defaulted

\* One row is written outside a transaction: a new one, with what it refers
\* to, or one of a folder, of which no reference changes.
LEMMA PutKeeps ==
    ASSUME TablesInv, NEW r \in Requests, pc[r] \in OneShots,
           NEW id \in Ids, NEW row \in Row, row.table = id[2],
           rows' = Put(rows, id, row), Goto(r, "done"), UNCHANGED <<draft, targets, cmd>>,
           Holders(r, id) = {},
           id \in DOMAIN rows =>
              /\ row.table = rows[id].table
              /\ row.user = rows[id].user /\ row.workspace = rows[id].workspace
              /\ row.parent = rows[id].parent /\ row.current = rows[id].current
              /\ row.isDefault = rows[id].isDefault,
           id \notin DOMAIN rows =>
              /\ id[1] = r /\ row.table \in {"folder", "variable", "credential"}
              /\ row.workspace \in Kept(rows, "workspace")
              /\ row.table # "folder" =>
                   row.parent \in Kept(rows, "folder") /\ rows[row.parent].workspace = row.workspace
    PROVE  TablesInv'
<1>1. /\ DOMAIN rows' = DOMAIN rows \cup {id} /\ rows'[id] = row
      /\ \A x \in DOMAIN rows \ {id} : rows'[x] = rows[x]
  BY DEF Put
<1>2. pc[r] \in Running /\ pc[r] \notin Opened /\ pc[r] # "clear"
  BY DEF Running, OneShots, Opened, Patches, Erasures
<1>3. Typed(rows) /\ Linked(rows) /\ Defaulted(rows)
  BY DEF TablesInv
<1>4. draft[r] = Empty /\ targets[r] = {} /\ DOMAIN draft = Requests
  BY <1>2, RunningAdmitted DEF Extent, Domains
<1>5. Typed(rows')
  BY <1>3, PutTyped
<1>6. \A x \in DOMAIN rows :
        /\ x \in DOMAIN rows' /\ rows'[x].table = rows[x].table
        /\ rows'[x].user = rows[x].user /\ rows'[x].workspace = rows[x].workspace
        /\ rows'[x].parent = rows[x].parent /\ rows'[x].current = rows[x].current
        /\ rows'[x].isDefault = rows[x].isDefault
  BY <1>1
<1>7. Anchored
  BY <1>6 DEF Anchored
<1>8. Linked(rows')
  <2> SUFFICES ASSUME NEW x \in DOMAIN rows' PROVE LinkedRow(rows', x)
    BY DEF Linked
  <2>1. CASE x \in DOMAIN rows
    BY <1>3, <1>6, <2>1, LinkStays DEF Linked
  <2>2. CASE x \notin DOMAIN rows
    <3>1. x = id /\ rows'[x] = row
      BY <1>1, <2>2
    <3>2. \A table : \A y \in Kept(rows, table) :
             y \in Kept(rows', table) /\ rows'[y].workspace = rows[y].workspace
      BY <1>6 DEF Kept
    <3> QED
      BY <2>2, <3>1, <3>2 DEF LinkedRow, Filed
  <2> QED
    BY <2>1, <2>2
<1>9. Defaulted(rows')
  <2> SUFFICES ASSUME NEW w \in Kept(rows', "workspace")
               PROVE  \E f \in Kept(rows', "folder") : rows'[f].workspace = w /\ rows'[f].isDefault
    BY DEF Defaulted
  <2>1. w \in Kept(rows, "workspace")
    BY <1>1, <1>6 DEF Kept
  <2>2. \A x \in Kept(rows, "folder") :
            x \in Kept(rows', "folder") /\ rows'[x].workspace = rows[x].workspace
              /\ (rows[x].isDefault => rows'[x].isDefault)
    BY <1>6 DEF Kept
  <2> QED
    BY <1>3, <2>1, <2>2, DefaultStays
<1>10. \A q \in Requests \ {r} : \A x \in DOMAIN draft[q] \cap DOMAIN rows' :
          x \in DOMAIN rows /\ rows'[x].isDefault = rows[x].isDefault
  BY <1>1 DEF Holders
<1>11. \A q \in Requests \ {r}, table \in Tables :
          <<q, table>> \in DOMAIN rows' => <<q, table>> \in DOMAIN rows
  BY <1>1
<1> QED
  BY <1>2, <1>4, <1>5, <1>7, <1>8, <1>9, <1>10, <1>11, EndedKeeps

LEMMA ExecuteFails ==
    ASSUME TablesInv, NEW r \in Requests, pc[r] \in OneShots,
           NEW point \in Finished, Goto(r, point), UNCHANGED <<rows, draft, targets, cmd>>
    PROVE  TablesInv'
<1>1. pc[r] \in Running /\ pc[r] \notin Opened /\ pc[r] # "clear"
  BY DEF Running, OneShots, Opened, Patches, Erasures
<1>2. point \notin Running /\ point \notin Opened /\ point # "clear"
  BY DEF Running, Opened, Finished, TxPoints, OneShots, Patches, Erasures
<1>3. /\ Domains /\ draft[r] = Empty /\ targets[r] = {}
  BY <1>1, RunningAdmitted DEF Extent
<1>4. Within(r, Empty, {}, point) /\ pc'[r] = point
  BY <1>3 DEF Within, Goto, Domains
<1>5. Typed(Empty) /\ DOMAIN Empty = {}
  BY EmptyIs DEF Typed
<1>6. DraftSound(r)'
  BY <1>2, <1>4 DEF DraftSound, Extent, Within, Opened
<1> QED
  BY <1>1, <1>2, <1>4, <1>5, <1>6, WithinKeeps

LEMMA InsertFolderKeeps ==
    ASSUME TablesInv, NEW r \in Requests, InsertFolder(r)
    PROVE  TablesInv'
<1>1. pc[r] = "insertFolder" /\ pc[r] \in OneShots /\ pc[r] \in Running
  BY DEF InsertFolder, At, OneShots, Running
<1>2. Typed(rows) /\ Domains /\ Admitted(r)
  BY <1>1, RunningAdmitted
<1> DEFINE id == <<r, "folder">>
           row == Written(r)
<1>3. /\ Target(r) = id /\ row \in Row /\ row.table = "folder"
      /\ row.workspace = cmd[r].workspace
  BY <1>1, <1>2, InsertFolderRow
<1>4. id \in Ids /\ id[1] = r /\ id[2] = "folder" /\ id \notin DOMAIN rows
  BY <1>1, RunningAdmitted, MintedIds DEF Tables
<1>5. cmd[r].workspace \in Kept(rows, "workspace")
  BY <1>1, <1>2 DEF Admitted, OpsAt
<1> HIDE DEF row
<1>6. CASE /\ Awaits(r) = {} /\ rows' = Put(rows, id, row)
           /\ Goto(r, "done") /\ UNCHANGED <<draft, targets, cmd>>
  <2>1. Holders(r, id) = {}
    BY <1>1, <1>3, <1>6 DEF Awaits, Patches
  <2> QED
    BY <1>1, <1>3, <1>4, <1>5, <1>6, <2>1, PutKeeps
<1>7. CASE Goto(r, Violation(r)) /\ UNCHANGED <<rows, draft, targets, cmd>>
  BY <1>1, <1>7, ExecuteFails DEF Violation, Finished
<1> QED
  BY <1>3, <1>6, <1>7 DEF InsertFolder, Execute, row

LEMMA InsertFiledKeeps ==
    ASSUME TablesInv, NEW r \in Requests, InsertVariable(r) \/ InsertCredential(r)
    PROVE  TablesInv'
<1>1. pc[r] \in {"insertVariable", "insertCredential"} /\ pc[r] \in OneShots /\ pc[r] \in Running
      /\ Execute(r)
  BY DEF InsertVariable, InsertCredential, At, OneShots, Running
<1>2. Typed(rows) /\ Domains /\ Admitted(r)
  BY <1>1, RunningAdmitted
<1> DEFINE table == Subject(cmd[r].op)
           id == <<r, table>>
           row == Written(r)
<1>3. Target(r) = id /\ FilesRow(r, row, table)
  BY <1>1, <1>2, FiledRow
<1>4. table \in {"variable", "credential"}
  BY <1>1, <1>2 DEF Admitted, OpsAt, Subject
<1> HIDE DEF row, table
<1>5. id \in Ids /\ id[1] = r /\ id[2] = table /\ id \notin DOMAIN rows
  BY <1>1, <1>4, RunningAdmitted, MintedIds DEF Tables
<1>6. /\ cmd[r].workspace \in Kept(rows, "workspace") /\ cmd[r].folder \in Kept(rows, "folder")
      /\ rows[cmd[r].folder].workspace = cmd[r].workspace
  BY <1>1, <1>2 DEF Admitted, OpsAt
<1>7. CASE /\ Awaits(r) = {} /\ rows' = Put(rows, id, row)
           /\ Goto(r, "done") /\ UNCHANGED <<draft, targets, cmd>>
  <2>1. Holders(r, id) = {}
    BY <1>1, <1>3, <1>7 DEF Awaits, Patches
  <2> QED
    BY <1>1, <1>3, <1>4, <1>5, <1>6, <1>7, <2>1, PutKeeps DEF FilesRow
<1>8. CASE Goto(r, Violation(r)) /\ UNCHANGED <<rows, draft, targets, cmd>>
  BY <1>1, <1>8, ExecuteFails DEF Violation, Finished
<1> QED
  BY <1>1, <1>3, <1>7, <1>8 DEF Execute, row

LEMMA PatchKeeps ==
    ASSUME TablesInv, NEW r \in Requests,
           PatchWorkflow(r) \/ PatchVariable(r) \/ PatchCredential(r)
    PROVE  TablesInv'
<1>1. pc[r] \in Patches /\ pc[r] \in OneShots /\ pc[r] \in Running
  BY DEF PatchWorkflow, PatchVariable, PatchCredential, Patch, At, Patches, OneShots, Running
<1>2. Typed(rows) /\ Domains /\ Admitted(r) /\ Extent(r)
  BY <1>1, RunningAdmitted
<1>3. CASE Matches(r) /\ Execute(r)
  <2> DEFINE id == cmd[r].target
             old == rows[id]
             row == Written(r)
  <2>1. /\ Target(r) = id /\ id \in DOMAIN rows /\ old.table \in Filed
        /\ Sets(row, old, {"name", "value"})
    BY <1>1, <1>2, <1>3, PatchRow
  <2>2. id \in Ids /\ old \in Row /\ old.table = id[2]
    BY <1>2, <2>1 DEF Typed
  <2>3. /\ row \in Row /\ row.table = old.table /\ row.user = old.user
        /\ row.workspace = old.workspace /\ row.parent = old.parent
        /\ row.current = old.current /\ row.isDefault = old.isDefault
    BY <2>1, <2>2 DEF Sets, Row
  <2> HIDE DEF row
  <2>4. CASE /\ Awaits(r) = {} /\ rows' = Put(rows, id, row)
             /\ Goto(r, "done") /\ UNCHANGED <<draft, targets, cmd>>
    <3>1. Holders(r, id) = {}
      BY <1>1, <2>1, <2>4 DEF Awaits, Patches
    <3> QED
      BY <1>1, <2>1, <2>2, <2>3, <2>4, <3>1, PutKeeps
  <2>5. CASE Goto(r, Violation(r)) /\ UNCHANGED <<rows, draft, targets, cmd>>
    BY <1>1, <2>5, ExecuteFails DEF Violation, Finished
  <2> QED
    BY <1>3, <2>1, <2>4, <2>5 DEF Execute, row
<1>4. CASE Goto(r, "notFound") /\ UNCHANGED <<rows, draft, targets, cmd>>
  BY <1>1, <1>4, ExecuteFails DEF Finished
<1> QED
  BY <1>3, <1>4 DEF PatchWorkflow, PatchVariable, PatchCredential, Patch

\* A row of a folder goes, and with a workflow its versions.
LEMMA GoneKeeps ==
    ASSUME TablesInv, NEW r \in Requests, pc[r] \in OneShots, Matches(r), NEW gone,
           rows' = Without(rows, gone), Goto(r, "done"), UNCHANGED <<draft, targets, cmd>>,
           cmd[r].target \in gone,
           \A x \in gone : x = cmd[r].target \/ x \in VersionsOf(cmd[r].target),
           Subject(cmd[r].op) = "workflow" => VersionsOf(cmd[r].target) \subseteq gone,
           Subject(cmd[r].op) \in Filed
    PROVE  TablesInv'
<1>1. DOMAIN rows' = DOMAIN rows \ gone /\ \A x \in DOMAIN rows \ gone : rows'[x] = rows[x]
  BY DEF Without
<1>2. pc[r] \in Running /\ pc[r] \notin Opened /\ pc[r] # "clear"
  BY DEF Running, OneShots, Opened, Patches, Erasures
<1>3. Typed(rows) /\ Linked(rows) /\ Defaulted(rows)
  BY DEF TablesInv
<1>4. draft[r] = Empty /\ targets[r] = {} /\ DOMAIN draft = Requests
  BY <1>2, RunningAdmitted DEF Extent, Domains
<1>5. Typed(rows')
  BY <1>1, <1>3 DEF Typed
<1>6. \A x \in gone \cap DOMAIN rows : rows[x].table \in Filed \cup {"version"}
  BY DEF Matches, VersionsOf
<1>7. \A table \in {"workspace", "folder"} : \A x \in Kept(rows, table) :
        x \in Kept(rows', table) /\ rows'[x] = rows[x]
  BY <1>1, <1>6 DEF Kept, Filed
<1>8. Anchored
  BY <1>7 DEF Anchored, Kept
<1>9. Linked(rows')
  <2> SUFFICES ASSUME NEW x \in DOMAIN rows' PROVE LinkedRow(rows', x)
    BY DEF Linked
  <2>1. x \in DOMAIN rows \ gone /\ rows'[x] = rows[x] /\ LinkedRow(rows, x)
    BY <1>1, <1>3 DEF Linked
  <2>2. ASSUME rows[x].table = "version"
        PROVE  rows[x].parent \in Kept(rows', "workflow")
    <3>1. rows[x].parent \in Kept(rows, "workflow")
      BY <2>1, <2>2 DEF LinkedRow
    <3>2. rows[x].parent \notin gone
      <4> SUFFICES ASSUME rows[x].parent \in gone PROVE FALSE
        OBVIOUS
      <4>1. rows[x].parent = cmd[r].target
        BY <3>1 DEF VersionsOf, Kept
      <4>2. x \in VersionsOf(cmd[r].target) /\ Subject(cmd[r].op) = "workflow"
        BY <2>1, <2>2, <3>1, <4>1 DEF VersionsOf, Matches, Kept
      <4> QED
        BY <2>1, <4>2
    <3> QED
      BY <1>1, <3>1, <3>2 DEF Kept
  <2>3. ASSUME rows[x].table = "workflow"
        PROVE  rows[x].current \in Kept(rows', "version") /\ rows'[rows[x].current].parent = x
    <3>1. rows[x].current \in Kept(rows, "version") /\ rows[rows[x].current].parent = x
      BY <2>1, <2>3 DEF LinkedRow
    <3>2. rows[x].current \notin gone
      BY <2>1, <3>1 DEF VersionsOf, Matches, Kept, Filed
    <3> QED
      BY <1>1, <3>1, <3>2 DEF Kept
  <2>4. ASSUME rows[x].table \in Filed
        PROVE  /\ rows[x].parent \in Kept(rows', "folder")
               /\ rows'[rows[x].parent].workspace = rows[x].workspace
    BY <1>7, <2>1, <2>4 DEF LinkedRow
  <2>5. rows[x].table # "workspace" => rows[x].workspace \in Kept(rows', "workspace")
    BY <1>7, <2>1 DEF LinkedRow
  <2>6. rows[x].table = "version" => rows'[rows[x].parent].workspace = rows[x].workspace
    BY <1>1, <2>1, <2>2 DEF LinkedRow, Kept
  <2> QED
    BY <2>1, <2>2, <2>3, <2>4, <2>5, <2>6 DEF LinkedRow
<1>10. Defaulted(rows')
  <2> SUFFICES ASSUME NEW w \in Kept(rows', "workspace")
               PROVE  \E f \in Kept(rows', "folder") : rows'[f].workspace = w /\ rows'[f].isDefault
    BY DEF Defaulted
  <2>1. w \in Kept(rows, "workspace")
    BY <1>1 DEF Kept
  <2>2. \A x \in Kept(rows, "folder") :
            x \in Kept(rows', "folder") /\ rows'[x].workspace = rows[x].workspace
              /\ (rows[x].isDefault => rows'[x].isDefault)
    BY <1>7
  <2> QED
    BY <1>3, <2>1, <2>2, DefaultStays
<1> QED
  BY <1>1, <1>2, <1>4, <1>5, <1>8, <1>9, <1>10, EndedKeeps

LEMMA EraseKeeps ==
    ASSUME TablesInv, NEW r \in Requests,
           EraseWorkflow(r) \/ EraseVariable(r) \/ EraseCredential(r)
    PROVE  TablesInv'
<1>1. /\ pc[r] \in Erasures /\ pc[r] \in OneShots /\ pc[r] \in Running
      /\ EraseWorkflow(r) <=> pc[r] = "eraseWorkflow"
  BY DEF EraseWorkflow, EraseVariable, EraseCredential, Erase, At, Erasures, OneShots, Running
<1>2. /\ Subject(cmd[r].op) \in Filed
      /\ Subject(cmd[r].op) = "workflow" <=> pc[r] = "eraseWorkflow"
  BY <1>1, RunningAdmitted DEF Admitted, OpsAt, Subject, Filed, Erasures
<1> DEFINE dependents == IF pc[r] = "eraseWorkflow" THEN VersionsOf(cmd[r].target) ELSE {}
           gone == {cmd[r].target} \cup dependents
<1>3. \/ /\ Matches(r) /\ rows' = Without(rows, gone) /\ Goto(r, "done")
         /\ UNCHANGED <<draft, targets, cmd>>
      \/ Goto(r, "notFound") /\ UNCHANGED <<rows, draft, targets, cmd>>
  BY <1>1 DEF EraseWorkflow, EraseVariable, EraseCredential, Erase, At
<1>4. CASE Matches(r) /\ rows' = Without(rows, gone) /\ Goto(r, "done")
           /\ UNCHANGED <<draft, targets, cmd>>
  <2>1. /\ cmd[r].target \in gone
        /\ \A x \in gone : x = cmd[r].target \/ x \in VersionsOf(cmd[r].target)
        /\ Subject(cmd[r].op) = "workflow" => VersionsOf(cmd[r].target) \subseteq gone
    BY <1>2
  <2> HIDE DEF gone
  <2> QED
    BY <1>1, <1>2, <1>4, <2>1, GoneKeeps
<1> HIDE DEF gone
<1>5. CASE Goto(r, "notFound") /\ UNCHANGED <<rows, draft, targets, cmd>>
  BY <1>1, <1>5, ExecuteFails DEF Finished
<1> QED
  BY <1>3, <1>4, <1>5

-----------------------------------------------------------------------------
(* The end of a transaction: what each draft adds to the tables *)

\* What a draft that is committed holds: new rows, or folders.
LEMMA CommitsWhat ==
    ASSUME TablesInv, NEW r \in Requests, pc[r] = "commit"
    PROVE  LET w == <<r, "workspace">>
               f == <<r, "folder">>
               wf == <<r, "workflow">>
               v == <<r, "version">>
               c == cmd[r]
               d == draft[r]
           IN  /\ Typed(d) /\ {w, f, wf, v} \cap DOMAIN rows = {}
               /\ \/ /\ DOMAIN d = {w, f} /\ d[w].table = "workspace" /\ d[w].user = c.user
                     /\ d[f].table = "folder" /\ d[f].workspace = w /\ d[f].isDefault
                     /\ c.user \in Users
                  \/ /\ DOMAIN d = {wf, v} /\ d[wf].table = "workflow" /\ d[v].table = "version"
                     /\ d[wf].workspace = c.workspace /\ d[v].workspace = c.workspace
                     /\ d[wf].parent = c.folder /\ d[wf].current = v /\ d[v].parent = wf
                     /\ c.workspace \in Kept(rows, "workspace") /\ rows[c.workspace].user = c.user
                     /\ c.folder \in Kept(rows, "folder") /\ rows[c.folder].workspace = c.workspace
                  \/ /\ \A id \in DOMAIN d : HoldsFolder(r, id)
                     /\ c.folder \in DOMAIN d /\ KeepsADefault(r)
                     /\ c.workspace \in Kept(rows, "workspace") /\ rows[c.workspace].user = c.user
<1>1. pc[r] \in Running /\ pc[r] \in Opened
  BY DEF Running, TxPoints, Opened
<1>2. Domains /\ Admitted(r) /\ Extent(r) /\ Content(r) /\ KeepsADefault(r)
  BY <1>1, RunningAdmitted
<1>3. /\ \A table \in Tables : <<r, table>> \notin DOMAIN rows /\ <<r, table>>[2] = table
  BY <1>1, RunningAdmitted
<1>4. Typed(draft[r]) /\ cmd[r] \in Command
  BY <1>2 DEF Domains, Admitted
<1>5. cmd[r].op \in {"createWorkspace", "createWorkflow", "renameFolder"}
  BY <1>2 DEF Admitted, OpsAt
<1>6. CASE cmd[r].op = "createWorkspace"
  <2>1. cmd[r].user \in Users
    BY <1>4 DEF Command
  <2>2. DOMAIN draft[r] = {<<r, "workspace">>, <<r, "folder">>}
    BY <1>2, <1>6 DEF Extent
  <2> QED
    BY <1>2, <1>3, <1>4, <1>6, <2>1, <2>2 DEF Content, Typed, Tables
<1>7. CASE cmd[r].op = "createWorkflow"
  <2>1. DOMAIN draft[r] = {<<r, "workflow">>, <<r, "version">>}
    BY <1>2, <1>7 DEF Extent
  <2>2. /\ cmd[r].workspace \in Kept(rows, "workspace") /\ rows[cmd[r].workspace].user = cmd[r].user
        /\ cmd[r].folder \in Kept(rows, "folder") /\ rows[cmd[r].folder].workspace = cmd[r].workspace
    BY <1>2, <1>7 DEF Admitted
  <2> QED
    BY <1>2, <1>3, <1>4, <1>7, <2>1, <2>2 DEF Content, Typed, Tables
<1>8. CASE cmd[r].op = "renameFolder"
  <2>1. \A id \in DOMAIN draft[r] : HoldsFolder(r, id)
    BY <1>2, <1>8 DEF Content
  <2>2. cmd[r].folder \in DOMAIN draft[r]
    BY <1>2, <1>8 DEF Extent
  <2>3. cmd[r].workspace \in Kept(rows, "workspace") /\ rows[cmd[r].workspace].user = cmd[r].user
    BY <1>2, <1>8 DEF Admitted
  <2> QED
    BY <1>2, <1>3, <1>4, <2>1, <2>2, <2>3 DEF Tables
<1> QED
  BY <1>5, <1>6, <1>7, <1>8

\* A row it replaces is a folder of the rename's; any other is the request's own.
LEMMA CommitsHeld ==
    ASSUME TablesInv, NEW r \in Requests, pc[r] = "commit",
           NEW f \in DOMAIN draft[r], f \in DOMAIN rows
    PROVE  /\ \A id \in DOMAIN draft[r] : HoldsFolder(r, id)
           /\ cmd[r].folder \in DOMAIN draft[r] /\ KeepsADefault(r)
<1>1. f \notin {<<r, "workspace">>, <<r, "folder">>, <<r, "workflow">>, <<r, "version">>}
  BY CommitsWhat
<1> QED
  BY <1>1, CommitsWhat

LEMMA CommitsMinted ==
    ASSUME TablesInv, NEW r \in Requests, pc[r] = "commit",
           NEW id \in DOMAIN draft[r], id \notin DOMAIN rows
    PROVE  id[1] = r /\ id[2] = draft[r][id].table
<1>1. \A x \in DOMAIN draft[r] : x[2] = draft[r][x].table
  BY DEF TablesInv, Domains, Typed
<1>2. ~HoldsFolder(r, id)
  BY DEF HoldsFolder, Kept
<1>3. id \in {<<r, "workspace">>, <<r, "folder">>, <<r, "workflow">>, <<r, "version">>}
  BY <1>2, CommitsWhat
<1> QED
  BY <1>1, <1>3

\* A commit adds rows, and of those there are changes folders only.
LEMMA CommitAgrees ==
    ASSUME TablesInv, NEW r \in Requests, Commit(r)
    PROVE  /\ DOMAIN rows' = DOMAIN rows \cup DOMAIN draft[r]
           /\ \A id \in DOMAIN draft[r] : rows'[id] = draft[r][id]
           /\ \A id \in DOMAIN rows \ DOMAIN draft[r] : rows'[id] = rows[id]
           /\ \A id \in DOMAIN rows \cap DOMAIN draft[r] : HoldsFolder(r, id)
           /\ Typed(rows')
           /\ \A x \in DOMAIN rows :
                /\ x \in DOMAIN rows' /\ rows'[x].table = rows[x].table
                /\ rows'[x].user = rows[x].user /\ rows'[x].workspace = rows[x].workspace
                /\ rows[x].table # "folder" =>
                     rows'[x].parent = rows[x].parent /\ rows'[x].current = rows[x].current
<1>1. /\ DOMAIN rows' = DOMAIN rows \cup DOMAIN draft[r]
      /\ \A id \in DOMAIN draft[r] : rows'[id] = draft[r][id]
      /\ \A id \in DOMAIN rows \ DOMAIN draft[r] : rows'[id] = rows[id]
  BY ViewIs DEF Commit
<1>2. \A id \in DOMAIN rows \cap DOMAIN draft[r] : HoldsFolder(r, id)
  BY CommitsWhat DEF Commit, At
<1>3. Typed(rows) /\ Typed(draft[r])
  BY DEF TablesInv, Domains
<1>4. Typed(rows')
  BY <1>1, <1>3 DEF Typed
<1>5. ASSUME NEW x \in DOMAIN rows
      PROVE  /\ x \in DOMAIN rows' /\ rows'[x].table = rows[x].table
             /\ rows'[x].user = rows[x].user /\ rows'[x].workspace = rows[x].workspace
             /\ rows[x].table # "folder" =>
                  rows'[x].parent = rows[x].parent /\ rows'[x].current = rows[x].current
  <2>1. CASE x \in DOMAIN draft[r]
    BY <1>1, <1>2, <1>3, <2>1 DEF HoldsFolder, Kept, Typed
  <2>2. CASE x \notin DOMAIN draft[r]
    BY <1>1, <2>2
  <2> QED
    BY <2>1, <2>2
<1> QED
  BY <1>1, <1>2, <1>4, <1>5

LEMMA CommitLinked ==
    ASSUME TablesInv, NEW r \in Requests, Commit(r)
    PROVE  Linked(rows')
<1> SUFFICES ASSUME NEW id \in DOMAIN rows' PROVE LinkedRow(rows', id)
  BY DEF Linked
<1> DEFINE w == <<r, "workspace">>
           f == <<r, "folder">>
           wf == <<r, "workflow">>
           v == <<r, "version">>
<1>1. /\ DOMAIN rows' = DOMAIN rows \cup DOMAIN draft[r]
      /\ \A x \in DOMAIN draft[r] : rows'[x] = draft[r][x]
      /\ \A x \in DOMAIN rows \cap DOMAIN draft[r] : HoldsFolder(r, x)
      /\ \A x \in DOMAIN rows :
           /\ x \in DOMAIN rows' /\ rows'[x].table = rows[x].table
           /\ rows'[x].user = rows[x].user /\ rows'[x].workspace = rows[x].workspace
           /\ rows[x].table # "folder" =>
                rows'[x].parent = rows[x].parent /\ rows'[x].current = rows[x].current
  BY CommitAgrees
<1>2. pc[r] = "commit" /\ Typed(rows) /\ Linked(rows)
  BY DEF Commit, At, TablesInv
<1>3. \A table : \A x \in Kept(rows, table) :
         x \in Kept(rows', table) /\ rows'[x].workspace = rows[x].workspace
  BY <1>1 DEF Kept
<1>4. CASE id \in DOMAIN rows
  BY <1>1, <1>2, <1>4, LinkStays DEF Linked
<1>5. CASE id \notin DOMAIN rows
  <2>1. id \in DOMAIN draft[r]
    BY <1>1, <1>5
  <2>2. CASE /\ DOMAIN draft[r] = {w, f} /\ draft[r][w].table = "workspace"
             /\ draft[r][w].user = cmd[r].user /\ cmd[r].user \in Users
             /\ draft[r][f].table = "folder" /\ draft[r][f].workspace = w
    BY <1>1, <2>1, <2>2 DEF LinkedRow, Filed, Kept
  <2>3. CASE /\ DOMAIN draft[r] = {wf, v} /\ draft[r][wf].table = "workflow"
             /\ draft[r][v].table = "version"
             /\ draft[r][wf].workspace = cmd[r].workspace
             /\ draft[r][v].workspace = cmd[r].workspace
             /\ draft[r][wf].parent = cmd[r].folder /\ draft[r][wf].current = v
             /\ draft[r][v].parent = wf
             /\ cmd[r].workspace \in Kept(rows, "workspace")
             /\ cmd[r].folder \in Kept(rows, "folder")
             /\ rows[cmd[r].folder].workspace = cmd[r].workspace
    <3>1. /\ rows'[wf] = draft[r][wf] /\ rows'[v] = draft[r][v]
          /\ wf \in Kept(rows', "workflow") /\ v \in Kept(rows', "version")
      BY <1>1, <2>3 DEF Kept
    <3>2. CASE id = wf
      BY <1>3, <2>3, <3>1, <3>2 DEF LinkedRow, Filed
    <3>3. CASE id = v
      BY <1>3, <2>3, <3>1, <3>3 DEF LinkedRow, Filed
    <3> QED
      BY <2>1, <2>3, <3>2, <3>3
  <2>4. CASE \A x \in DOMAIN draft[r] : HoldsFolder(r, x)
    BY <1>5, <2>1, <2>4 DEF HoldsFolder, Kept
  <2> QED
    BY <1>2, <2>2, <2>3, <2>4, CommitsWhat
<1> QED
  BY <1>4, <1>5

LEMMA CommitDefaulted ==
    ASSUME TablesInv, NEW r \in Requests, Commit(r)
    PROVE  Defaulted(rows')
<1> SUFFICES ASSUME NEW w \in Kept(rows', "workspace")
             PROVE  \E f \in Kept(rows', "folder") : rows'[f].workspace = w /\ rows'[f].isDefault
  BY DEF Defaulted
<1> DEFINE c == cmd[r]
           d == draft[r]
<1>1. /\ DOMAIN rows' = DOMAIN rows \cup DOMAIN d
      /\ \A x \in DOMAIN d : rows'[x] = d[x]
      /\ \A x \in DOMAIN rows \ DOMAIN d : rows'[x] = rows[x]
      /\ \A x \in DOMAIN rows \cap DOMAIN d : HoldsFolder(r, x)
      /\ \A x \in DOMAIN rows :
           /\ x \in DOMAIN rows' /\ rows'[x].table = rows[x].table
           /\ rows'[x].workspace = rows[x].workspace
  BY CommitAgrees
<1>2. pc[r] = "commit" /\ Typed(rows) /\ Typed(d) /\ Defaulted(rows)
  BY DEF Commit, At, TablesInv, Domains
<1>3. CASE w \in DOMAIN rows
  <2>1. PICK f \in Kept(rows, "folder") : rows[f].workspace = w /\ rows[f].isDefault
    BY <1>1, <1>3 DEF Kept, Defaulted, TablesInv
  <2>2. f \in Kept(rows', "folder") /\ rows'[f].workspace = w
    BY <1>1, <2>1 DEF Kept
  <2>3. CASE f \notin DOMAIN d
    BY <1>1, <2>1, <2>2, <2>3 DEF Kept
  <2>4. CASE f \in DOMAIN d /\ d[f].isDefault
    BY <1>1, <2>2, <2>4
  <2>5. CASE f \in DOMAIN d /\ ~d[f].isDefault
    <3>1. HoldsFolder(r, f)
      BY <1>1, <2>1, <2>5 DEF Kept
    <3>2. /\ \A id \in DOMAIN d : HoldsFolder(r, id)
          /\ c.folder \in DOMAIN d /\ KeepsADefault(r)
      BY <1>2, <2>1, <2>5, CommitsHeld DEF Kept
    <3>3. d[c.folder].isDefault
      BY <2>1, <2>5, <3>2 DEF KeepsADefault, Kept
    <3>4. rows[c.folder].workspace = w /\ c.folder \in Kept(rows, "folder")
      BY <2>1, <3>1, <3>2 DEF HoldsFolder
    <3>5. c.folder \in Kept(rows', "folder") /\ rows'[c.folder].workspace = w
      BY <1>1, <3>4 DEF Kept
    <3> QED
      BY <1>1, <3>2, <3>3, <3>5
  <2> QED
    BY <2>3, <2>4, <2>5
<1>4. CASE w \notin DOMAIN rows
  <2>1. w \in DOMAIN d /\ d[w].table = "workspace"
    BY <1>1, <1>4 DEF Kept
  <2> DEFINE f == <<r, "folder">>
  <2>2. /\ f \in DOMAIN d /\ d[f].table = "folder" /\ d[f].workspace = w /\ d[f].isDefault
    <3>1. ~HoldsFolder(r, w)
      BY <1>4 DEF HoldsFolder, Kept
    <3>2. \A x \in DOMAIN d : HoldsFolder(r, x) => x # w
      BY <3>1
    <3> QED
      BY <1>2, <2>1, <3>2, CommitsWhat
  <2>3. f \in Kept(rows', "folder") /\ rows'[f].workspace = w /\ rows'[f].isDefault
    BY <1>1, <2>2 DEF Kept
  <2> QED
    BY <2>3
<1> QED
  BY <1>3, <1>4

LEMMA CommitKeeps ==
    ASSUME TablesInv, NEW r \in Requests, Commit(r)
    PROVE  TablesInv'
<1>1. pc[r] = "commit" /\ pc[r] \in Running /\ pc[r] # "clear"
  BY DEF Commit, At, Running, TxPoints
<1>2. /\ DOMAIN rows' = DOMAIN rows \cup DOMAIN draft[r]
      /\ \A id \in DOMAIN rows \ DOMAIN draft[r] : rows'[id] = rows[id]
      /\ Typed(rows')
      /\ \A x \in DOMAIN rows :
           /\ x \in DOMAIN rows' /\ rows'[x].table = rows[x].table
           /\ rows'[x].user = rows[x].user /\ rows'[x].workspace = rows[x].workspace
  BY CommitAgrees
<1>3. Anchored
  BY <1>2 DEF Anchored
<1>4. Linked(rows') /\ Defaulted(rows')
  BY CommitLinked, CommitDefaulted
<1>5. /\ targets[r] = {} /\ DOMAIN draft' = Requests /\ draft'[r] = Empty
      /\ \A q \in Requests \ {r} : draft'[q] = draft[q]
      /\ Goto(r, "done") /\ UNCHANGED <<targets, cmd>>
  BY <1>1, RunningAdmitted DEF Commit, Extent, Domains
<1>6. \A q \in Requests \ {r} : \A id \in DOMAIN draft[q] \cap DOMAIN rows' :
         id \in DOMAIN rows /\ rows'[id].isDefault = rows[id].isDefault
  BY <1>2 DEF TablesInv, Exclusive
<1>7. \A q \in Requests \ {r}, table \in Tables :
         <<q, table>> \in DOMAIN rows' => <<q, table>> \in DOMAIN rows
  <2> SUFFICES ASSUME NEW q \in Requests \ {r}, NEW table \in Tables,
                      <<q, table>> \in DOMAIN draft[r]
               PROVE  <<q, table>> \in DOMAIN rows
    BY <1>2
  <2> QED
    BY <1>1, CommitsMinted
<1> QED
  BY <1>1, <1>2, <1>3, <1>4, <1>5, <1>6, <1>7, EndedKeeps

-----------------------------------------------------------------------------
(* The steps that begin requests *)

LEMMA BegunKeeps ==
    ASSUME TablesInv, NEW r \in Requests, At(r, "idle"), NEW c \in Command,
           NEW point \in (Running \ Opened) \cup {"notFound"}, point # "clear",
           cmd' = Put(cmd, r, c), Goto(r, point), UNCHANGED <<rows, draft, targets>>,
           point \in Running => Admitted(r)'
    PROVE  TablesInv'
<1> USE DEF TablesInv
<1>1. /\ pc' \in [Requests -> {"idle"} \cup Running \cup Finished] /\ pc'[r] = point
      /\ \A q \in Requests \ {r} : pc'[q] = pc[q]
      /\ pc[r] = "idle" /\ "idle" \notin Running
  BY DEF Goto, Domains, Finished, At, Running, TxPoints, OneShots, Patches, Erasures
<1>2. /\ DOMAIN cmd' = DOMAIN cmd \cup {r} /\ cmd'[r] = c
      /\ \A q \in DOMAIN cmd \ {r} : cmd'[q] = cmd[q]
  BY DEF Put
<1>3. Anchored
  BY DEF Anchored
<1>4. Domains'
  BY <1>1, <1>2 DEF Domains
<1>5. AllAdmitted'
  <2> SUFFICES ASSUME NEW q \in Requests, pc'[q] \in Running, q # r PROVE Admitted(q)'
    BY <1>1 DEF AllAdmitted
  <2>1. Admitted(q) /\ q \in DOMAIN cmd
    BY <1>1 DEF AllAdmitted, Admitted
  <2> QED
    BY <1>1, <1>2, <1>3, <2>1, AdmittedStays DEF Admitted
<1>6. DraftsSound'
  <2> SUFFICES ASSUME NEW q \in Requests PROVE DraftSound(q)'
    BY DEF DraftsSound
  <2>1. CASE q = r
    <3>1. draft[r] = Empty /\ targets[r] = {}
      BY <1>1 DEF DraftsSound, DraftSound, Extent, Opened
    <3> QED
      BY <1>1, <2>1, <3>1 DEF DraftSound, Extent, Opened
  <2>2. CASE q # r
    <3>1. cmd'[q] = cmd[q] \/ pc[q] \notin Running
      BY <1>2, <2>2 DEF AllAdmitted, Admitted
    <3> QED
      BY <1>1, <1>3, <2>2, <3>1, DraftStays DEF DraftsSound
  <2> QED
    BY <2>1, <2>2
<1>7. Exclusive'
  BY <1>1 DEF Exclusive
<1> QED
  BY <1>4, <1>5, <1>6, <1>7

LEMMA IdsAtHand ==
    ASSUME TablesInv
    PROVE  /\ WorkspaceIds = Kept(rows, "workspace") /\ WorkspaceIds \subseteq Ids
           /\ FolderIds = Kept(rows, "folder") /\ FolderIds \subseteq Ids
           /\ \A table : FiledIds(table) \subseteq Ids
BY DEF TablesInv, Typed, WorkspaceIds, FolderIds, FiledIds, Kept

LEMMA CreateWorkspaceKeeps ==
    ASSUME TablesInv, NEW r \in Requests, NEW u \in Users, NEW n \in Names,
           NEW s \in Slugs \cup {Null}, CreateWorkspace(r, u, n, s)
    PROVE  TablesInv'
<1> DEFINE c == [Bare("createWorkspace", u) EXCEPT !.name = n, !.slug = s]
<1>1. c \in Command /\ c.op = "createWorkspace" /\ c.name = n
  BY DEF Command, Bare, AllOps, Creations
<1>2. At(r, "idle") /\ cmd' = Put(cmd, r, c) /\ UNCHANGED <<rows, draft, targets>>
      /\ (Goto(r, "insertWorkspace") \/ Goto(r, "notFound"))
  BY DEF CreateWorkspace, Begin
<1> HIDE DEF c
<1>3. ASSUME Goto(r, "insertWorkspace") PROVE TablesInv'
  <2>1. pc'[r] = "insertWorkspace" /\ cmd'[r] = c /\ r \in DOMAIN cmd'
    BY <1>2, <1>3 DEF Put, Goto, TablesInv, Domains
  <2>2. Admitted(r)'
    BY <1>1, <1>2, <2>1 DEF Admitted, OpsAt, AllOps, Creations
  <2> QED
    BY <1>1, <1>2, <1>3, <2>2, BegunKeeps DEF Running, TxPoints, Opened
<1>4. ASSUME Goto(r, "notFound") PROVE TablesInv'
  BY <1>1, <1>2, <1>4, BegunKeeps
     DEF Running, TxPoints, OneShots, Patches, Erasures
<1> QED
  BY <1>2, <1>3, <1>4

LEMMA CreateFolderKeeps ==
    ASSUME TablesInv, NEW r \in Requests, NEW u \in Users, NEW w \in WorkspaceIds,
           NEW n \in Names, NEW s \in Slugs \cup {Null}, CreateFolder(r, u, w, n, s)
    PROVE  TablesInv'
<1> DEFINE c == [Bare("createFolder", u) EXCEPT !.workspace = w, !.name = n, !.slug = s]
<1>1. c \in Command /\ c.op = "createFolder" /\ c.name = n /\ c.workspace = w /\ c.user = u
  BY IdsAtHand DEF Command, Bare, AllOps, Creations
<1>2. At(r, "idle") /\ cmd' = Put(cmd, r, c) /\ UNCHANGED <<rows, draft, targets>>
      /\ \/ Owned(rows, w, u) /\ Goto(r, "insertFolder")
         \/ Goto(r, "notFound")
  BY DEF CreateFolder, Begin
<1> HIDE DEF c
<1>3. ASSUME Owned(rows, w, u), Goto(r, "insertFolder") PROVE TablesInv'
  <2>1. pc'[r] = "insertFolder" /\ cmd'[r] = c /\ r \in DOMAIN cmd'
    BY <1>2, <1>3 DEF Put, Goto, TablesInv, Domains
  <2>2. c.workspace \in Kept(rows, "workspace") /\ rows[c.workspace].user = c.user
    BY <1>1, <1>3, IdsAtHand DEF Owned
  <2>3. Admitted(r)'
    BY <1>1, <1>2, <2>1, <2>2 DEF Admitted, OpsAt, AllOps, Creations
  <2> QED
    BY <1>1, <1>2, <1>3, <2>3, BegunKeeps DEF Running, OneShots, Opened
<1>4. ASSUME Goto(r, "notFound") PROVE TablesInv'
  BY <1>1, <1>2, <1>4, BegunKeeps
     DEF Running, TxPoints, OneShots, Patches, Erasures
<1> QED
  BY <1>2, <1>3, <1>4

\* The requests whose folder is checked too.
LEMMA ReachingKeeps ==
    ASSUME TablesInv, NEW r \in Requests, NEW c \in Command,
           c.workspace \in WorkspaceIds, c.folder \in FolderIds,
           NEW point \in {"lockFolder", "insertWorkflow", "insertVariable", "insertCredential"}
                           \cup Patches \cup Erasures,
           c.op \in OpsAt(point),
           c.op \in Creations \cup {"renameFolder"} => c.name \in Names,
           Begin(r, c, Reachable(rows, c.workspace, c.folder, c.user), point)
    PROVE  TablesInv'
<1>1. At(r, "idle") /\ cmd' = Put(cmd, r, c) /\ UNCHANGED <<rows, draft, targets>>
      /\ \/ Reachable(rows, c.workspace, c.folder, c.user) /\ Goto(r, point)
         \/ Goto(r, "notFound")
  BY DEF Begin
<1>2. ASSUME Reachable(rows, c.workspace, c.folder, c.user), Goto(r, point) PROVE TablesInv'
  <2>1. pc'[r] = point /\ cmd'[r] = c /\ r \in DOMAIN cmd'
    BY <1>1, <1>2 DEF Put, Goto, TablesInv, Domains
  <2>2. /\ c.workspace \in Kept(rows, "workspace") /\ rows[c.workspace].user = c.user
        /\ c.folder \in Kept(rows, "folder") /\ rows[c.folder].workspace = c.workspace
    BY <1>2, IdsAtHand DEF Reachable, Owned
  <2>3. Admitted(r)'
    BY <1>1, <2>1, <2>2 DEF Admitted, OpsAt
  <2>4. point \in Running \ Opened /\ point # "clear"
    BY DEF Running, TxPoints, OneShots, Opened, Patches, Erasures
  <2> QED
    BY <1>1, <1>2, <2>3, <2>4, BegunKeeps
<1>3. ASSUME Goto(r, "notFound") PROVE TablesInv'
  BY <1>1, <1>3, BegunKeeps DEF Running, TxPoints, OneShots, Patches, Erasures
<1> QED
  BY <1>1, <1>2, <1>3

LEMMA RenameFolderKeeps ==
    ASSUME TablesInv, NEW r \in Requests, NEW u \in Users, NEW w \in WorkspaceIds,
           NEW f \in FolderIds, NEW n \in Names, NEW m \in BOOLEAN,
           RenameFolder(r, u, w, f, n, m)
    PROVE  TablesInv'
<1> DEFINE c == [Bare("renameFolder", u)
                   EXCEPT !.workspace = w, !.folder = f, !.name = n, !.makeDefault = m]
<1>1. /\ c \in Command /\ c.op = "renameFolder" /\ c.name = n /\ c.workspace = w
      /\ c.folder = f /\ c.user = u
  BY IdsAtHand DEF Command, Bare, AllOps
<1>2. Begin(r, c, Reachable(rows, w, f, u), "lockFolder")
  BY DEF RenameFolder
<1> HIDE DEF c
<1>3. c.op \in OpsAt("lockFolder")
  BY <1>1 DEF OpsAt, AllOps
<1> QED
  BY <1>1, <1>2, <1>3, ReachingKeeps

LEMMA FilingIs ==
    ASSUME NEW op \in AllOps, NEW u \in Users, NEW w \in Ids, NEW f \in Ids,
           NEW n \in Names \cup {Null}, NEW v \in Values \cup {Null}
    PROVE  LET c == Filing(op, u, w, f, n, v) IN
           /\ c \in Command /\ c.op = op /\ c.user = u /\ c.workspace = w /\ c.folder = f
           /\ c.name = n
           /\ \A t \in Ids :
                LET d == [c EXCEPT !.target = t] IN
                /\ d \in Command /\ d.op = op /\ d.user = u /\ d.workspace = w
                /\ d.folder = f /\ d.name = n
BY DEF Filing, Bare, Command

LEMMA FiledKeeps ==
    ASSUME TablesInv, NEW r \in Requests, NEW u \in Users, NEW w \in WorkspaceIds,
           NEW f \in FolderIds, NEW op \in Ops,
           AskWorkflows(r, u, w, f, op) \/ AskVariables(r, u, w, f, op)
              \/ AskCredentials(r, u, w, f, op)
    PROVE  TablesInv'
<1>1. w \in Ids /\ f \in Ids /\ \A table : FiledIds(table) \subseteq Ids
  BY IdsAtHand
<1>2. ASSUME NEW c \in Command, c.workspace = w, c.folder = f,
             NEW point \in {"insertWorkflow", "insertVariable", "insertCredential"}
                             \cup Patches \cup Erasures,
             c.op \in OpsAt(point), c.op \in Creations => c.name \in Names,
             InFolder(r, c, point)
      PROVE  TablesInv'
  <2>1. c.op # "renameFolder"
    BY <1>2 DEF OpsAt, Patches, Erasures
  <2> QED
    BY <1>2, <2>1, ReachingKeeps DEF InFolder
<1>3. ASSUME NEW n \in Names, NEW v \in Values,
             \/ CreateWorkflow(r, u, w, f, n, v) \/ CreateVariable(r, u, w, f, n, v)
             \/ CreateCredential(r, u, w, f, n, v)
      PROVE  TablesInv'
  <2>1. PICK op2 \in {"createWorkflow", "createVariable", "createCredential"} :
           InFolder(r, Filing(op2, u, w, f, n, v),
                    CASE op2 = "createWorkflow" -> "insertWorkflow"
                      [] op2 = "createVariable" -> "insertVariable"
                      [] op2 = "createCredential" -> "insertCredential")
    BY <1>3 DEF CreateWorkflow, CreateVariable, CreateCredential
  <2>2. op2 \in AllOps
    BY DEF AllOps, Creations
  <2> DEFINE c == Filing(op2, u, w, f, n, v)
  <2>3. c \in Command /\ c.op = op2 /\ c.workspace = w /\ c.folder = f /\ c.name \in Names
    BY <1>1, <2>2, FilingIs
  <2> HIDE DEF c
  <2> QED
    BY <1>2, <2>1, <2>2, <2>3 DEF OpsAt, c
<1>4. ASSUME NEW t \in Ids, NEW n \in Names \cup {Null}, NEW v \in Values \cup {Null},
             \/ UpdateWorkflow(r, u, w, f, t, n, v) \/ UpdateCredential(r, u, w, f, t, n, v)
             \/ UpdateVariable(r, u, w, f, t, n)
      PROVE  TablesInv'
  <2>1. PICK op2 \in Updates, x \in Values \cup {Null} :
           InFolder(r, [Filing(op2, u, w, f, n, x) EXCEPT !.target = t],
                    CASE op2 = "updateWorkflow" -> "patchWorkflow"
                      [] op2 = "updateVariable" -> "patchVariable"
                      [] op2 = "updateCredential" -> "patchCredential")
    BY <1>4 DEF UpdateWorkflow, UpdateVariable, UpdateCredential, Updates
  <2>2. op2 \in AllOps /\ op2 \notin Creations
    BY DEF AllOps, Updates, Creations
  <2> DEFINE c == [Filing(op2, u, w, f, n, x) EXCEPT !.target = t]
  <2>3. c \in Command /\ c.op = op2 /\ c.workspace = w /\ c.folder = f
    BY <1>1, <2>2, FilingIs
  <2> HIDE DEF c
  <2> QED
    BY <1>2, <2>1, <2>2, <2>3 DEF OpsAt, c, Updates, Patches
<1>5. ASSUME NEW t \in Ids,
             \/ DeleteWorkflow(r, u, w, f, t) \/ DeleteVariable(r, u, w, f, t)
             \/ DeleteCredential(r, u, w, f, t)
      PROVE  TablesInv'
  <2>1. PICK op2 \in Deletions :
           InFolder(r, [Filing(op2, u, w, f, Null, Null) EXCEPT !.target = t],
                    CASE op2 = "deleteWorkflow" -> "eraseWorkflow"
                      [] op2 = "deleteVariable" -> "eraseVariable"
                      [] op2 = "deleteCredential" -> "eraseCredential")
    BY <1>5 DEF DeleteWorkflow, DeleteVariable, DeleteCredential, Deletions
  <2>2. op2 \in AllOps /\ op2 \notin Creations
    BY DEF AllOps, Deletions, Creations
  <2> DEFINE c == [Filing(op2, u, w, f, Null, Null) EXCEPT !.target = t]
  <2>3. c \in Command /\ c.op = op2 /\ c.workspace = w /\ c.folder = f
    BY <1>1, <2>2, FilingIs
  <2> HIDE DEF c
  <2> QED
    BY <1>2, <2>1, <2>2, <2>3 DEF OpsAt, c, Deletions, Erasures
<1> QED
  BY <1>1, <1>3, <1>4, <1>5 DEF AskWorkflows, AskVariables, AskCredentials

LEMMA ArriveKeeps ==
    ASSUME TablesInv, NEW r \in Requests, Arrive(r)
    PROVE  TablesInv'
<1>1. PICK u \in Users, op \in Ops :
        \/ AskFolders(r, u, op)
        \/ \E w \in WorkspaceIds, f \in FolderIds :
             AskWorkflows(r, u, w, f, op) \/ AskVariables(r, u, w, f, op)
                \/ AskCredentials(r, u, w, f, op)
  BY DEF Arrive
<1>2. CASE AskFolders(r, u, op)
  BY <1>2, CreateWorkspaceKeeps, CreateFolderKeeps, RenameFolderKeeps DEF AskFolders
<1> QED
  BY <1>1, <1>2, FiledKeeps

-----------------------------------------------------------------------------
(* Every step keeps the invariant *)

LEMMA OnlyRunningWait ==
    ASSUME NEW r \in Requests, pc[r] \notin Running
    PROVE  Awaits(r) = {}
BY DEF Awaits, Running, TxPoints, OneShots, Patches

LEMMA EnvironmentKeeps ==
    ASSUME TablesInv, NEW r \in Requests, Die(r) \/ Cancel(r)
    PROVE  TablesInv'
<1>1. pc[r] \in Running
  BY OnlyRunningWait DEF Die, Cancel, InCircle
<1> QED
  BY <1>1, RollbackKeeps DEF Die, Cancel, Finished

LEMMA StepKeeps ==
    ASSUME TablesInv, NEW r \in Requests, Step(r)
    PROVE  TablesInv'
BY InsertWorkspaceKeeps, InsertDefaultKeeps, InsertFolderKeeps, LockFolderKeeps, RenameKeeps,
   FindDefaultsKeeps, ClearedKeeps, ClearDefaultKeeps, InsertWorkflowKeeps, InsertVersionKeeps,
   PointVersionKeeps, InsertFiledKeeps, PatchKeeps, EraseKeeps, CommitKeeps DEF Step

LEMMA StillKeeps == ASSUME TablesInv, UNCHANGED vars PROVE TablesInv'
<1>1. rows' = rows /\ draft' = draft /\ targets' = targets /\ pc' = pc /\ cmd' = cmd
  BY DEF vars
<1>2. Typed(rows)' /\ Linked(rows)' /\ Defaulted(rows)'
  BY <1>1 DEF TablesInv, Typed, Linked, LinkedRow, Defaulted, Kept
<1>3. Domains' /\ Exclusive'
  BY <1>1 DEF TablesInv, Domains, Exclusive, Typed
<1>4. AllAdmitted'
  BY <1>1 DEF TablesInv, AllAdmitted, Admitted, Kept
<1>5. DraftsSound'
  BY <1>1 DEF TablesInv, DraftsSound, DraftSound, Extent, Content, HoldsFolder, KeepsADefault,
              Visits, Kept
<1> QED
  BY <1>2, <1>3, <1>4, <1>5 DEF TablesInv

LEMMA TablesNext == ASSUME TablesInv, [Next]_vars PROVE TablesInv'
BY ArriveKeeps, StepKeeps, EnvironmentKeeps, StillKeeps DEF Next, Quiescent

LEMMA TablesInit == ASSUME Init PROVE TablesInv
<1>1. AtRest(rows) /\ \A id \in DOMAIN rows : id[1] \notin Requests
  BY StoredAssumption DEF Init
<1>2. /\ \A r \in Requests : draft[r] = Empty /\ targets[r] = {} /\ pc[r] = "idle"
      /\ DOMAIN draft = Requests /\ DOMAIN targets = Requests
      /\ pc \in [Requests -> {"idle"}] /\ cmd = Empty
  BY DEF Init
<1>3. "idle" \notin Running /\ "idle" \notin Opened
  BY DEF Running, TxPoints, OneShots, Patches, Erasures, Opened
<1>4. Domains
  BY <1>2, EmptyIs DEF Domains, Typed
<1>5. AllAdmitted /\ DraftsSound
  BY <1>2, <1>3 DEF AllAdmitted, DraftsSound, DraftSound, Extent
<1>6. Exclusive
  BY <1>1, <1>2, EmptyIs DEF Exclusive
<1> QED
  BY <1>1, <1>4, <1>5, <1>6 DEF TablesInv, AtRest

-----------------------------------------------------------------------------
\* Every variable keeps its type, and only open transactions hold rows.
THEOREM WorkspacesTyped == Spec => []TypeOK
<1>1. TablesInv => TypeOK
  <2> SUFFICES ASSUME TablesInv PROVE TypeOK
    OBVIOUS
  <2>1. \A r \in Requests : pc[r] \notin TxPoints => pc[r] \notin Opened /\ pc[r] # "clear"
    BY DEF TxPoints, Opened
  <2>2. \A r \in Requests : pc[r] \notin TxPoints => draft[r] = Empty /\ targets[r] = {}
    BY <2>1 DEF TablesInv, DraftsSound, DraftSound, Extent
  <2> QED
    BY <2>2 DEF TypeOK, TablesInv, Typed, Domains
<1> QED
  BY <1>1, TablesInit, TablesNext, PTL DEF Spec

\* A workspace always has a default folder.
THEOREM DefaultsRemain == Spec => []AlwaysADefault
<1>1. TablesInv => AlwaysADefault
  BY DEF TablesInv, Defaulted, AlwaysADefault, Kept, Of
<1> QED
  BY <1>1, TablesInit, TablesNext, PTL DEF Spec

\* A workflow and its first version are seen together.
THEOREM WorkflowsAreWhole == Spec => []WholeWorkflows
<1>1. TablesInv => WholeWorkflows
  BY DEF TablesInv, Linked, LinkedRow, WholeWorkflows, Kept, Of
<1> QED
  BY <1>1, TablesInit, TablesNext, PTL DEF Spec

\* A row is filed in a folder of its own workspace.
THEOREM FilingsAreOwn == Spec => []FiledInOwnWorkspace
<1>1. TablesInv => FiledInOwnWorkspace
  BY DEF TablesInv, Linked, LinkedRow, FiledInOwnWorkspace, Kept, Of
<1> QED
  BY <1>1, TablesInit, TablesNext, PTL DEF Spec

-----------------------------------------------------------------------------
(* The unique indexes *)

LEMMA ClashIsMutual == ASSUME NEW a, NEW b PROVE Clash(a, b) <=> Clash(b, a)
BY DEF Clash

\* A row is in nobody's way, but for the row it replaces.
InNoWay(r, id, row) ==
    /\ \A j \in DOMAIN View(r) \ {id} : ~Clash(row, View(r)[j])
    /\ \A q \in Requests \ {r} : \A j \in DOMAIN draft[q] : ~Clash(row, draft[q][j])

\* The points of the statements that enter a row in the indexes.
Entering == {"insertWorkspace", "insertDefault", "insertFolder", "rename", "insertWorkflow",
             "insertVersion", "pointVersion", "insertVariable", "insertCredential"}

Enters(r) ==
    \/ pc[r] \in Entering
    \/ pc[r] \in Patches /\ Target(r) \in DOMAIN rows

LEMMA AwaitedInNoWay ==
    ASSUME NEW r \in Requests, Awaits(r) = {}, ~Taken(r), Enters(r)
    PROVE  InNoWay(r, Target(r), Written(r)) /\ Holders(r, Target(r)) = {}
<1>1. Holders(r, Target(r)) = {} /\ Rivals(r, Written(r)) = {}
  BY DEF Awaits, Enters, Entering, Patches
<1> QED
  BY <1>1 DEF InNoWay, Taken, Rivals

\* A row that only changes outside the indexes.
LEMMA ReplacedInNoWay ==
    ASSUME Indexed, Domains, NEW r \in Requests, NEW id \in DOMAIN rows, NEW row,
           Keys(row) = Keys(rows[id]), id \notin DOMAIN draft[r], Holders(r, id) = {}
    PROVE  InNoWay(r, id, row)
<1>1. \A x : Clash(row, x) <=> Clash(rows[id], x)
  BY DEF Clash
<1>2. ASSUME NEW j \in DOMAIN View(r) \ {id} PROVE ~Clash(rows[id], View(r)[j])
  <2>1. CASE j \in DOMAIN draft[r]
    BY <2>1, ViewIs, ClashIsMutual DEF Indexed
  <2>2. CASE j \notin DOMAIN draft[r]
    BY <1>2, <2>2, ViewIs DEF Indexed, Unique
  <2> QED
    BY <2>1, <2>2
<1>3. ASSUME NEW q \in Requests \ {r}, NEW j \in DOMAIN draft[q]
      PROVE  ~Clash(rows[id], draft[q][j])
  <2>1. id \notin DOMAIN draft[q]
    BY DEF Holders
  <2> QED
    BY <2>1, ClashIsMutual DEF Indexed
<1> QED
  BY <1>1, <1>2, <1>3 DEF InNoWay

LEMMA HoldIndexed ==
    ASSUME Indexed, Domains, NEW r \in Requests, NEW id, NEW row, UNCHANGED rows,
           draft' = [draft EXCEPT ![r] = Put(@, id, row)], InNoWay(r, id, row)
    PROVE  Indexed'
<1>1. /\ DOMAIN draft'[r] = DOMAIN draft[r] \cup {id} /\ draft'[r][id] = row
      /\ \A x \in DOMAIN draft[r] \ {id} : draft'[r][x] = draft[r][x]
      /\ \A q \in Requests \ {r} : draft'[q] = draft[q]
  BY DEF Put, Domains
<1>2. \A x \in DOMAIN draft[r] \ {id} : ~Clash(row, draft[r][x])
  BY ViewIs DEF InNoWay
<1>3. \A x \in DOMAIN rows \ (DOMAIN draft[r] \cup {id}) : ~Clash(row, rows[x])
  BY ViewIs DEF InNoWay
<1>4. Unique(draft'[r])
  BY <1>1, <1>2, ClashIsMutual DEF Indexed, Unique
<1>5. \A i \in DOMAIN draft'[r], j \in DOMAIN rows \ DOMAIN draft'[r] :
         ~Clash(draft'[r][i], rows[j])
  BY <1>1, <1>3 DEF Indexed
<1>6. \A q \in Requests \ {r} : \A i \in DOMAIN draft'[r], j \in DOMAIN draft[q] :
         ~Clash(draft'[r][i], draft[q][j])
  BY <1>1 DEF Indexed, InNoWay
<1>7. \A q \in Requests \ {r} : \A i \in DOMAIN draft[q], j \in DOMAIN draft'[r] :
         ~Clash(draft[q][i], draft'[r][j])
  BY <1>6, ClashIsMutual
<1> QED
  BY <1>1, <1>4, <1>5, <1>6, <1>7 DEF Indexed

LEMMA DropIndexed ==
    ASSUME Indexed, NEW r \in Requests, DOMAIN draft = Requests, UNCHANGED rows,
           draft' = [draft EXCEPT ![r] = Empty]
    PROVE  Indexed'
<1>1. draft'[r] = Empty /\ \A q \in Requests \ {r} : draft'[q] = draft[q]
  OBVIOUS
<1>2. Unique(Empty)
  BY EmptyIs DEF Unique
<1> QED
  BY <1>1, <1>2, EmptyIs DEF Indexed

LEMMA PutIndexed ==
    ASSUME Indexed, NEW r \in Requests, NEW id, NEW row, draft[r] = Empty, UNCHANGED draft,
           rows' = Put(rows, id, row), InNoWay(r, id, row), Holders(r, id) = {}
    PROVE  Indexed'
<1>1. /\ DOMAIN rows' = DOMAIN rows \cup {id} /\ rows'[id] = row
      /\ \A x \in DOMAIN rows \ {id} : rows'[x] = rows[x]
  BY DEF Put
<1>2. \A x \in DOMAIN rows \ {id} : ~Clash(row, rows[x])
  BY ViewIs, EmptyIs DEF InNoWay
<1>3. Unique(rows')
  BY <1>1, <1>2, ClashIsMutual DEF Indexed, Unique
<1>4. \A q \in Requests : \A i \in DOMAIN draft[q], j \in DOMAIN rows' \ DOMAIN draft[q] :
         ~Clash(draft[q][i], rows'[j])
  BY <1>1, EmptyIs, ClashIsMutual DEF Indexed, InNoWay
<1> QED
  BY <1>3, <1>4 DEF Indexed

LEMMA WithoutIndexed ==
    ASSUME Indexed, UNCHANGED draft, NEW gone, rows' = Without(rows, gone)
    PROVE  Indexed'
<1>1. DOMAIN rows' \subseteq DOMAIN rows /\ \A x \in DOMAIN rows' : rows'[x] = rows[x]
  BY DEF Without
<1> QED
  BY <1>1 DEF Indexed, Unique

LEMMA CommitIndexed ==
    ASSUME TablesInv, Indexed, NEW r \in Requests, Commit(r)
    PROVE  Indexed'
<1>1. /\ DOMAIN rows' = DOMAIN rows \cup DOMAIN draft[r]
      /\ \A id \in DOMAIN draft[r] : rows'[id] = draft[r][id]
      /\ \A id \in DOMAIN rows \ DOMAIN draft[r] : rows'[id] = rows[id]
  BY ViewIs DEF Commit
<1>2. draft'[r] = Empty /\ \A q \in Requests \ {r} : draft'[q] = draft[q]
  BY DEF Commit, TablesInv, Domains
<1>3. Unique(rows')
  <2> SUFFICES ASSUME NEW i \in DOMAIN rows', NEW j \in DOMAIN rows', i # j
               PROVE  ~Clash(rows'[i], rows'[j])
    BY DEF Unique
  <2>1. CASE i \in DOMAIN draft[r] /\ j \in DOMAIN draft[r]
    BY <1>1, <2>1 DEF Indexed, Unique
  <2>2. CASE i \in DOMAIN draft[r] /\ j \notin DOMAIN draft[r]
    BY <1>1, <2>2 DEF Indexed
  <2>3. CASE i \notin DOMAIN draft[r] /\ j \in DOMAIN draft[r]
    BY <1>1, <2>3, ClashIsMutual DEF Indexed
  <2>4. CASE i \notin DOMAIN draft[r] /\ j \notin DOMAIN draft[r]
    BY <1>1, <2>4 DEF Indexed, Unique
  <2> QED
    BY <2>1, <2>2, <2>3, <2>4
<1>4. ASSUME NEW q \in Requests \ {r}, NEW i \in DOMAIN draft[q],
             NEW j \in DOMAIN rows' \ DOMAIN draft[q]
      PROVE  ~Clash(draft[q][i], rows'[j])
  <2>1. CASE j \in DOMAIN draft[r]
    BY <1>1, <2>1 DEF Indexed
  <2>2. CASE j \notin DOMAIN draft[r]
    BY <1>1, <2>2 DEF Indexed
  <2> QED
    BY <2>1, <2>2
<1>5. Unique(Empty)
  BY EmptyIs DEF Unique
<1> QED
  BY <1>2, <1>3, <1>4, <1>5, EmptyIs DEF Indexed

LEMMA StageIndexed ==
    ASSUME TablesInv, Indexed, NEW r \in Requests, NEW next, Stage(r, next), pc[r] \in Entering
    PROVE  Indexed'
<1>1. Domains
  BY DEF TablesInv
<1>2. CASE ~Taken(r) /\ draft' = [draft EXCEPT ![r] = Put(@, Target(r), Written(r))]
            /\ UNCHANGED rows
  <2>1. InNoWay(r, Target(r), Written(r))
    <3>1. Awaits(r) = {}
      BY DEF Stage
    <3> QED
      BY <1>2, <3>1, AwaitedInNoWay DEF Enters
  <2> QED
    BY <1>1, <1>2, <2>1, HoldIndexed
<1>3. CASE Rollback(r)
  BY <1>1, <1>3, DropIndexed DEF Rollback, Domains
<1> QED
  BY <1>2, <1>3 DEF Stage

LEMMA ExecuteIndexed ==
    ASSUME TablesInv, Indexed, NEW r \in Requests, Execute(r), pc[r] \in OneShots, Enters(r)
    PROVE  Indexed'
<1>1. pc[r] \in Running /\ pc[r] \notin Opened
  BY DEF Running, OneShots, Opened, Patches, Erasures
<1>2. draft[r] = Empty
  BY <1>1, RunningAdmitted DEF Extent
<1>3. CASE ~Taken(r) /\ rows' = Put(rows, Target(r), Written(r))
  <2>1. InNoWay(r, Target(r), Written(r)) /\ Holders(r, Target(r)) = {}
    BY <1>3, AwaitedInNoWay DEF Execute
  <2> QED
    BY <1>2, <1>3, <2>1, PutIndexed DEF Execute
<1>4. CASE UNCHANGED rows
  BY <1>4 DEF Execute, Indexed, Unique
<1> QED
  BY <1>3, <1>4 DEF Execute

LEMMA LockFolderIndexed ==
    ASSUME TablesInv, Indexed, NEW r \in Requests, LockFolder(r)
    PROVE  Indexed'
<1>1. pc[r] = "lockFolder" /\ pc[r] \in Running /\ pc[r] \notin Opened
  BY DEF LockFolder, At, Running, TxPoints, Opened
<1>2. Typed(rows) /\ Domains /\ Admitted(r) /\ Extent(r) /\ draft[r] = Empty
  BY <1>1, RunningAdmitted DEF Extent
<1> DEFINE id == cmd[r].folder
<1>3. Target(r) = id /\ id \in DOMAIN rows /\ Written(r) = rows[id]
  BY <1>1, <1>2, LockFolderRow
<1>4. Holders(r, id) = {} /\ id \notin DOMAIN draft[r]
  BY <1>1, <1>2, <1>3, EmptyIs DEF LockFolder, Awaits
<1>5. InNoWay(r, id, rows[id])
  BY <1>2, <1>3, <1>4, ReplacedInNoWay
<1> QED
  BY <1>2, <1>3, <1>5, HoldIndexed DEF LockFolder

LEMMA ClearDefaultIndexed ==
    ASSUME TablesInv, Indexed, NEW r \in Requests, NEW id \in targets[r], ClearDefault(r, id)
    PROVE  Indexed'
<1>1. pc[r] = "clear" /\ pc[r] \in Running /\ pc[r] \in Opened
  BY DEF ClearDefault, At, Running, TxPoints, Opened
<1>2. Typed(rows) /\ Domains /\ Visits(r)
  BY <1>1, RunningAdmitted
<1> DEFINE old == rows[id]
           row == [old EXCEPT !.isDefault = FALSE]
<1>3. id \in DOMAIN rows /\ id \notin DOMAIN draft[r] /\ old \in Row
  BY <1>2 DEF Visits, Kept, Typed
<1>4. View(r)[id] = old /\ Holders(r, id) = {} /\ UNCHANGED rows
  BY <1>3, ViewIs DEF ClearDefault
<1>5. Keys(row) = Keys(old)
  <2>1. /\ row.table = old.table /\ row.user = old.user /\ row.workspace = old.workspace
        /\ row.parent = old.parent /\ row.name = old.name /\ row.slug = old.slug
    BY <1>3 DEF Row
  <2> HIDE DEF row
  <2> QED
    BY <1>3, <2>1, SameKeys
<1> HIDE DEF row
<1>6. CASE draft' = [draft EXCEPT ![r] = Put(@, id, row)]
  <2>1. InNoWay(r, id, row)
    BY <1>2, <1>3, <1>4, <1>5, ReplacedInNoWay DEF TablesInv
  <2> QED
    BY <1>2, <1>4, <1>6, <2>1, HoldIndexed
<1>7. CASE draft' = draft
  BY <1>4, <1>7 DEF Indexed, Unique
<1> QED
  BY <1>4, <1>6, <1>7 DEF ClearDefault, row

\* The steps that write no row.
LEMMA UnwrittenIndexed ==
    ASSUME Indexed, UNCHANGED <<rows, draft>> PROVE Indexed'
BY DEF Indexed, Unique

LEMMA StepIndexed ==
    ASSUME TablesInv, Indexed, NEW r \in Requests, Step(r)
    PROVE  Indexed'
<1>1. CASE InsertWorkspace(r) \/ InsertDefault(r) \/ InsertWorkflow(r)
            \/ InsertVersion(r) \/ PointVersion(r)
  BY <1>1, StageIndexed
     DEF InsertWorkspace, InsertDefault, InsertWorkflow, InsertVersion, PointVersion, At, Entering
<1>2. CASE Rename(r)
  BY <1>2, StageIndexed DEF Rename, At, Entering
<1>3. CASE InsertFolder(r) \/ InsertVariable(r) \/ InsertCredential(r)
  <2>1. pc[r] \in Entering /\ pc[r] \in OneShots /\ Execute(r)
    BY <1>3 DEF InsertFolder, InsertVariable, InsertCredential, At, Entering, OneShots
  <2> QED
    BY <2>1, ExecuteIndexed DEF Enters
<1>4. CASE PatchWorkflow(r) \/ PatchVariable(r) \/ PatchCredential(r)
  <2>1. pc[r] \in Patches /\ pc[r] \in OneShots
    BY <1>4 DEF PatchWorkflow, PatchVariable, PatchCredential, Patch, At, Patches, OneShots
  <2>2. CASE Matches(r) /\ Execute(r)
    <3>1. Target(r) \in DOMAIN rows
      BY <2>1, <2>2 DEF Matches, Target, Patches
    <3> QED
      BY <2>1, <2>2, <3>1, ExecuteIndexed DEF Enters
  <2>3. CASE UNCHANGED <<rows, draft>>
    BY <2>3, UnwrittenIndexed
  <2> QED
    BY <1>4, <2>2, <2>3 DEF PatchWorkflow, PatchVariable, PatchCredential, Patch
<1>5. CASE EraseWorkflow(r) \/ EraseVariable(r) \/ EraseCredential(r)
  <2>1. UNCHANGED draft /\ (UNCHANGED rows \/ \E gone : rows' = Without(rows, gone))
    BY <1>5 DEF EraseWorkflow, EraseVariable, EraseCredential, Erase
  <2> QED
    BY <2>1, WithoutIndexed, UnwrittenIndexed
<1>6. CASE FindDefaults(r) \/ Cleared(r)
  BY <1>6, UnwrittenIndexed DEF FindDefaults, Cleared
<1> QED
  BY <1>1, <1>2, <1>3, <1>4, <1>5, <1>6, LockFolderIndexed, ClearDefaultIndexed, CommitIndexed
     DEF Step

LEMMA ArriveUnwritten ==
    ASSUME NEW r \in Requests, Arrive(r)
    PROVE  UNCHANGED <<rows, draft, targets>> /\ \E point : Goto(r, point)
<1> DEFINE Goes == \E point : Goto(r, point)
<1>1. ASSUME NEW c, NEW point, InFolder(r, c, point)
      PROVE  UNCHANGED <<rows, draft, targets>> /\ Goes
  BY <1>1 DEF InFolder, Begin
<1>2. ASSUME NEW u, NEW op, AskFolders(r, u, op)
      PROVE  UNCHANGED <<rows, draft, targets>> /\ Goes
  BY <1>2 DEF AskFolders, CreateWorkspace, CreateFolder, RenameFolder, Begin
<1>3. ASSUME NEW u, NEW w, NEW f, NEW op,
             \/ AskWorkflows(r, u, w, f, op) \/ AskVariables(r, u, w, f, op)
             \/ AskCredentials(r, u, w, f, op)
      PROVE  \E c, point : InFolder(r, c, point)
  <2>1. CASE AskWorkflows(r, u, w, f, op)
    BY <2>1 DEF AskWorkflows, CreateWorkflow, UpdateWorkflow, DeleteWorkflow
  <2>2. CASE AskVariables(r, u, w, f, op)
    BY <2>2 DEF AskVariables, CreateVariable, UpdateVariable, DeleteVariable
  <2>3. CASE AskCredentials(r, u, w, f, op)
    BY <2>3 DEF AskCredentials, CreateCredential, UpdateCredential, DeleteCredential
  <2> QED
    BY <1>3, <2>1, <2>2, <2>3
<1> QED
  BY <1>1, <1>2, <1>3 DEF Arrive

LEMMA EnvironmentIndexed ==
    ASSUME TablesInv, Indexed, NEW r \in Requests, Die(r) \/ Cancel(r)
    PROVE  Indexed'
BY DropIndexed DEF Die, Cancel, Rollback, TablesInv, Domains

LEMMA IndexedNext == ASSUME TablesInv, Indexed, [Next]_vars PROVE Indexed'
BY ArriveUnwritten, StepIndexed, EnvironmentIndexed, UnwrittenIndexed DEF Next, Quiescent, vars

LEMMA IndexedInit == ASSUME Init PROVE Indexed
<1>1. Unique(rows) /\ \A r \in Requests : draft[r] = Empty
  BY StoredAssumption DEF Init, AtRest
<1>2. Unique(Empty)
  BY EmptyIs DEF Unique
<1> QED
  BY <1>1, <1>2, EmptyIs DEF Indexed

\* No two rows a path cannot tell apart.
THEOREM PathsAreUnambiguous == Spec => []NoTwins
<1>1. Indexed => NoTwins
  BY DEF Indexed, Unique, Clash, Keys, NoTwins
<1> QED
  BY <1>1, TablesInit, TablesNext, IndexedInit, IndexedNext, PTL DEF Spec

-----------------------------------------------------------------------------
(* Who writes what *)

\* A written row is the caller's, before and after.
Owns(r, id) ==
    /\ id \in DOMAIN rows  => OwnerIn(rows, id) = cmd[r].user
    /\ id \in DOMAIN rows' => OwnerIn(rows', id) = cmd[r].user

\* A row of a workspace of the caller's, in a table that keeps the workspace.
LEMMA OwnerIs ==
    ASSUME NEW t, NEW w \in Kept(t, "workspace"), NEW id, t[id].table # "workspace",
           t[id].workspace = w
    PROVE  OwnerIn(t, id) = t[w].user
BY DEF OwnerIn, Kept

\* The workspace of a request that is under way.
LEMMA CallersWorkspace ==
    ASSUME TablesInv, NEW r \in Requests, pc[r] \in OneShots
    PROVE  LET w == cmd[r].workspace IN w \in Kept(rows, "workspace") /\ rows[w].user = cmd[r].user
<1>1. pc[r] \in Running
  BY DEF Running
<1>2. Admitted(r)
  BY <1>1, RunningAdmitted
<1>3. cmd[r].op # "createWorkspace"
  BY <1>2 DEF Admitted, OpsAt, OneShots, Patches, Erasures
<1> QED
  BY <1>2, <1>3 DEF Admitted

LEMMA PutByOwner ==
    ASSUME NEW r, NEW id, NEW row, NEW w \in Kept(rows, "workspace"), rows[w].user = cmd[r].user,
           rows' = Put(rows, id, row), row.table # "workspace", row.workspace = w,
           id \in DOMAIN rows => rows[id].table # "workspace" /\ rows[id].workspace = w
    PROVE  \A x : IsWritten(x) => Owns(r, x)
<1>1. /\ DOMAIN rows' = DOMAIN rows \cup {id} /\ rows'[id] = row
      /\ \A x \in DOMAIN rows \ {id} : rows'[x] = rows[x]
  BY DEF Put
<1>2. \A x : IsWritten(x) => x = id
  BY <1>1 DEF IsWritten
<1>3. w # id /\ w \in Kept(rows', "workspace") /\ rows'[w].user = cmd[r].user
  BY <1>1 DEF Kept
<1>4. OwnerIn(rows', id) = cmd[r].user
  BY <1>1, <1>3 DEF OwnerIn, Kept
<1>5. id \in DOMAIN rows => OwnerIn(rows, id) = cmd[r].user
  BY OwnerIs
<1> QED
  BY <1>2, <1>4, <1>5 DEF Owns

\* What a statement outside a transaction writes: a new row of the request's,
\* or one of which neither the table nor the workspace changes.
LEMMA ExecuteWrites ==
    ASSUME TablesInv, NEW r \in Requests,
           \/ pc[r] \in {"insertFolder", "insertVariable", "insertCredential"}
           \/ pc[r] \in Patches /\ Matches(r)
    PROVE  LET id == Target(r)
               row == Written(r)
           IN  /\ row.table # "workspace" /\ row.workspace = cmd[r].workspace
               /\ id \in DOMAIN rows =>
                    /\ row.table = rows[id].table /\ row.user = rows[id].user
                    /\ row.workspace = rows[id].workspace
               /\ id \notin DOMAIN rows => id[1] = r
<1>1. pc[r] \in OneShots /\ pc[r] \in Running
  BY DEF OneShots, Running
<1>2. Typed(rows) /\ Domains /\ Admitted(r) /\ Extent(r)
  BY <1>1, RunningAdmitted
<1>3. \A table \in Tables : <<r, table>> \notin DOMAIN rows /\ <<r, table>>[1] = r
  BY <1>1, RunningAdmitted
<1> DEFINE id == Target(r)
           row == Written(r)
<1>4. CASE pc[r] = "insertFolder"
  <2>1. id = <<r, "folder">> /\ row.table = "folder" /\ row.workspace = cmd[r].workspace
    BY <1>2, <1>4, InsertFolderRow
  <2>2. id \notin DOMAIN rows /\ id[1] = r
    BY <1>3, <2>1 DEF Tables
  <2> QED
    BY <2>1, <2>2
<1>5. CASE pc[r] \in {"insertVariable", "insertCredential"}
  <2>1. Subject(cmd[r].op) \in Filed /\ id = <<r, Subject(cmd[r].op)>>
        /\ FilesRow(r, row, Subject(cmd[r].op))
    BY <1>2, <1>5, FiledRow
  <2>2. id \notin DOMAIN rows /\ id[1] = r
    BY <1>3, <2>1 DEF Tables, Filed
  <2> QED
    BY <2>1, <2>2 DEF FilesRow, Filed
<1>6. CASE pc[r] \in Patches /\ Matches(r)
  <2> DEFINE old == rows[cmd[r].target]
  <2>1. /\ id = cmd[r].target /\ id \in DOMAIN rows /\ old.table \in Filed
        /\ old.parent = cmd[r].folder /\ Sets(row, old, {"name", "value"})
    BY <1>2, <1>6, PatchRow
  <2>2. old \in Row /\ LinkedRow(rows, cmd[r].target)
    BY <1>2, <2>1 DEF TablesInv, Linked, Typed
  <2>3. old.workspace = cmd[r].workspace
    <3>1. rows[old.parent].workspace = old.workspace
      BY <2>1, <2>2 DEF LinkedRow
    <3>2. rows[cmd[r].folder].workspace = cmd[r].workspace
      BY <1>2, <1>6 DEF Admitted, OpsAt, Patches
    <3> QED
      BY <2>1, <3>1, <3>2
  <2>4. row.table = old.table /\ row.user = old.user /\ row.workspace = old.workspace
    BY <2>1, <2>2 DEF Sets, Row
  <2> QED
    BY <2>1, <2>3, <2>4 DEF Filed
<1> QED
  BY <1>4, <1>5, <1>6

LEMMA ExecuteByOwner ==
    ASSUME TablesInv, NEW r \in Requests, Execute(r),
           \/ pc[r] \in {"insertFolder", "insertVariable", "insertCredential"}
           \/ pc[r] \in Patches /\ Matches(r)
    PROVE  \A id : IsWritten(id) => Owns(r, id)
<1>1. cmd[r].workspace \in Kept(rows, "workspace") /\ rows[cmd[r].workspace].user = cmd[r].user
  BY CallersWorkspace DEF OneShots
<1> DEFINE id == Target(r)
           row == Written(r)
<1>2. /\ row.table # "workspace" /\ row.workspace = cmd[r].workspace
      /\ id \in DOMAIN rows => rows[id].table # "workspace" /\ rows[id].workspace = cmd[r].workspace
  BY ExecuteWrites
<1> HIDE DEF id, row
<1>3. CASE rows' = Put(rows, id, row)
  BY <1>1, <1>2, <1>3, PutByOwner
<1>4. CASE rows' = rows
  BY <1>4 DEF IsWritten
<1> QED
  BY <1>3, <1>4 DEF Execute, id, row

LEMMA EraseByOwner ==
    ASSUME TablesInv, NEW r \in Requests,
           EraseWorkflow(r) \/ EraseVariable(r) \/ EraseCredential(r)
    PROVE  \A id : IsWritten(id) => Owns(r, id)
<1>1. pc[r] \in Erasures /\ pc[r] \in OneShots /\ pc[r] \in Running
  BY DEF EraseWorkflow, EraseVariable, EraseCredential, Erase, At, Erasures, OneShots, Running
<1>2. Typed(rows) /\ Linked(rows) /\ Admitted(r)
  BY <1>1, RunningAdmitted DEF TablesInv
<1>3. cmd[r].workspace \in Kept(rows, "workspace") /\ rows[cmd[r].workspace].user = cmd[r].user
  BY <1>1, CallersWorkspace
<1>4. /\ Subject(cmd[r].op) \in Filed
      /\ rows[cmd[r].folder].workspace = cmd[r].workspace
  BY <1>1, <1>2 DEF Admitted, OpsAt, Subject, Filed, Erasures
<1> DEFINE target == cmd[r].target
<1>5. CASE rows' = rows
  BY <1>5 DEF IsWritten
<1>6. CASE Matches(r) /\ \E gone : /\ rows' = Without(rows, gone)
                                   /\ \A id \in gone : id = target \/ id \in VersionsOf(target)
  <2>1. target \in DOMAIN rows /\ rows[target].table \in Filed /\ rows[target].parent = cmd[r].folder
    BY <1>4, <1>6 DEF Matches
  <2>2. rows[target].workspace = cmd[r].workspace /\ rows[target].table # "workspace"
    BY <1>2, <1>4, <2>1 DEF Linked, LinkedRow, Filed
  <2>3. \A id \in VersionsOf(target) :
           rows[id].workspace = cmd[r].workspace /\ rows[id].table # "workspace"
    BY <1>2, <2>2 DEF Linked, LinkedRow, VersionsOf
  <2>4. ASSUME NEW id, IsWritten(id)
        PROVE  id \notin DOMAIN rows' /\ (id = target \/ id \in VersionsOf(target))
    BY <1>6, <2>4 DEF Without, IsWritten
  <2> QED
    BY <1>3, <2>2, <2>3, <2>4, OwnerIs DEF Owns
<1>7. \/ UNCHANGED rows
      \/ Matches(r) /\ rows' = Without(rows, {target} \cup {})
      \/ Matches(r) /\ rows' = Without(rows, {target} \cup VersionsOf(target))
  BY DEF EraseWorkflow, EraseVariable, EraseCredential, Erase
<1> QED
  BY <1>5, <1>6, <1>7

LEMMA CommitByOwner ==
    ASSUME TablesInv, NEW r \in Requests, Commit(r)
    PROVE  \A id : IsWritten(id) => Owns(r, id)
<1> SUFFICES ASSUME NEW id, IsWritten(id) PROVE Owns(r, id)
  OBVIOUS
<1> DEFINE c == cmd[r]
           d == draft[r]
           w == <<r, "workspace">>
           f == <<r, "folder">>
<1>1. /\ DOMAIN rows' = DOMAIN rows \cup DOMAIN d
      /\ \A x \in DOMAIN d : rows'[x] = d[x]
      /\ \A x \in DOMAIN rows \ DOMAIN d : rows'[x] = rows[x]
      /\ \A x \in DOMAIN rows :
           /\ x \in DOMAIN rows' /\ rows'[x].table = rows[x].table
           /\ rows'[x].user = rows[x].user
  BY CommitAgrees
<1>2. id \in DOMAIN d /\ rows'[id] = d[id] /\ id \in DOMAIN rows'
  BY <1>1 DEF IsWritten
<1>3. pc[r] = "commit"
  BY DEF Commit, At
<1>4. CASE /\ DOMAIN d = {w, f} /\ d[w].table = "workspace" /\ d[w].user = c.user
           /\ d[f].table = "folder" /\ d[f].workspace = w
  <2>1. id \notin DOMAIN rows
    BY <1>2, <1>3, <1>4, CommitsWhat
  <2>2. rows'[w] = d[w] /\ rows'[f] = d[f] /\ id \in {w, f}
    BY <1>1, <1>2, <1>4
  <2>3. OwnerIn(rows', id) = c.user
    BY <1>4, <2>2 DEF OwnerIn
  <2> QED
    BY <2>1, <2>3 DEF Owns
<1>5. ASSUME c.workspace \in Kept(rows, "workspace"), rows[c.workspace].user = c.user,
             d[id].table # "workspace", d[id].workspace = c.workspace,
             id \in DOMAIN rows => rows[id].table # "workspace" /\ rows[id].workspace = c.workspace
      PROVE  Owns(r, id)
  <2>1. c.workspace \in Kept(rows', "workspace") /\ rows'[c.workspace].user = c.user
    BY <1>1, <1>5 DEF Kept
  <2>2. OwnerIn(rows', id) = c.user
    BY <1>2, <1>5, <2>1, OwnerIs
  <2>3. id \in DOMAIN rows => OwnerIn(rows, id) = c.user
    BY <1>5, OwnerIs
  <2> QED
    BY <2>2, <2>3 DEF Owns
<1>6. CASE /\ DOMAIN d = {<<r, "workflow">>, <<r, "version">>}
           /\ d[<<r, "workflow">>].table = "workflow" /\ d[<<r, "version">>].table = "version"
           /\ d[<<r, "workflow">>].workspace = c.workspace
           /\ d[<<r, "version">>].workspace = c.workspace
           /\ c.workspace \in Kept(rows, "workspace") /\ rows[c.workspace].user = c.user
  <2>1. id \notin DOMAIN rows
    BY <1>2, <1>3, <1>6, CommitsWhat
  <2>2. d[id].table # "workspace" /\ d[id].workspace = c.workspace
    BY <1>2, <1>6
  <2> QED
    BY <1>5, <1>6, <2>1, <2>2
<1>7. CASE /\ \A x \in DOMAIN d : HoldsFolder(r, x)
           /\ c.workspace \in Kept(rows, "workspace") /\ rows[c.workspace].user = c.user
  <2>1. HoldsFolder(r, id)
    BY <1>2, <1>7
  <2>2. /\ id \in DOMAIN rows /\ rows[id].table = "folder" /\ rows[id].workspace = c.workspace
        /\ d[id].workspace = c.workspace
    BY <2>1 DEF HoldsFolder, Kept
  <2>3. d[id].table = "folder"
    BY <1>1, <1>2, <2>2
  <2> QED
    BY <1>5, <1>7, <2>2, <2>3
<1> QED
  BY <1>3, <1>4, <1>6, <1>7, CommitsWhat

LEMMA StepByOwner ==
    ASSUME TablesInv, NEW r \in Requests, Step(r)
    PROVE  \A id : IsWritten(id) => Owns(r, id)
<1>1. CASE rows' = rows
  BY <1>1 DEF IsWritten
<1>2. CASE InsertFolder(r) \/ InsertVariable(r) \/ InsertCredential(r)
  BY <1>2, ExecuteByOwner DEF InsertFolder, InsertVariable, InsertCredential, At
<1>3. CASE PatchWorkflow(r) \/ PatchVariable(r) \/ PatchCredential(r)
  <2>1. pc[r] \in Patches /\ ((Matches(r) /\ Execute(r)) \/ UNCHANGED rows)
    BY <1>3 DEF PatchWorkflow, PatchVariable, PatchCredential, Patch, At, Patches
  <2> QED
    BY <1>1, <2>1, ExecuteByOwner
<1>4. CASE EraseWorkflow(r) \/ EraseVariable(r) \/ EraseCredential(r)
  BY <1>4, EraseByOwner
<1>5. CASE Commit(r)
  BY <1>5, CommitByOwner
<1>6. CASE \/ InsertWorkspace(r) \/ InsertDefault(r) \/ LockFolder(r) \/ Rename(r)
           \/ FindDefaults(r) \/ Cleared(r) \/ (\E id \in targets[r] : ClearDefault(r, id))
           \/ InsertWorkflow(r) \/ InsertVersion(r) \/ PointVersion(r)
  BY <1>1, <1>6 DEF InsertWorkspace, InsertDefault, LockFolder, Rename, FindDefaults, Cleared,
                    ClearDefault, InsertWorkflow, InsertVersion, PointVersion, Stage, Rollback
<1> QED
  BY <1>2, <1>3, <1>4, <1>5, <1>6 DEF Step

\* A step that changes the rows moves its request on.
LEMMA WriterMoves ==
    ASSUME TablesInv, NEW r \in Requests, Step(r), rows' # rows
    PROVE  pc[r] \in Running /\ pc'[r] # pc[r]
<1>1. pc[r] \in OneShots \cup {"commit"} /\ Goto(r, "done")
  BY DEF Step, InsertWorkspace, InsertDefault, LockFolder, Rename, FindDefaults, Cleared,
         ClearDefault, InsertWorkflow, InsertVersion, PointVersion, Stage, Rollback,
         InsertFolder, InsertVariable, InsertCredential, PatchWorkflow, PatchVariable,
         PatchCredential, Patch, EraseWorkflow, EraseVariable, EraseCredential, Erase, Execute,
         Commit, At, OneShots, Patches, Erasures
<1>2. pc[r] \in Running /\ "done" \notin Running
  BY <1>1 DEF Running, TxPoints, OneShots, Patches, Erasures
<1> QED
  BY <1>1, <1>2 DEF Goto, TablesInv, Domains

\* No request changes, adds or deletes a row of another user's workspace.
THEOREM OwnersWrite == Spec => OnlyOwnersWrite
<1> DEFINE ByOwner == \A id \in Ids : IsWritten(id) =>
               \E r \in Requests :
                  /\ pc[r] \in Running /\ pc'[r] # pc[r]
                  /\ id \in DOMAIN rows  => OwnerIn(rows, id) = cmd[r].user
                  /\ id \in DOMAIN rows' => OwnerIn(rows', id) = cmd[r].user
<1>1. ASSUME TablesInv, [Next]_vars PROVE [ByOwner]_vars
  <2>1. CASE rows' = rows
    BY <2>1 DEF IsWritten
  <2>2. CASE rows' # rows
    <3>1. PICK r \in Requests : Step(r)
      BY <1>1, <2>2, ArriveUnwritten DEF Next, Quiescent, vars, Die, Cancel, Rollback
    <3> QED
      BY <1>1, <2>2, <3>1, StepByOwner, WriterMoves DEF Owns
  <2> QED
    BY <2>1, <2>2
<1> QED
  BY <1>1, TablesInit, TablesNext, PTL DEF Spec, OnlyOwnersWrite

-----------------------------------------------------------------------------
(* What a reader may rely on between two statements *)

\* Rows keep their table, workspace and owner; workspaces and folders stay;
\* a new row has an id that was never there; what is done stays done.
Steady ==
    /\ \A id \in DOMAIN rows \cap DOMAIN rows' :
         /\ rows'[id].table = rows[id].table /\ rows'[id].user = rows[id].user
         /\ rows'[id].workspace = rows[id].workspace
    /\ \A id \in DOMAIN rows : rows[id].table \in {"workspace", "folder"} => id \in DOMAIN rows'
    /\ \A id \in DOMAIN rows' \ DOMAIN rows : id[1] \in Requests /\ pc[id[1]] # "done"
    /\ \A r \in Requests : pc[r] = "done" => pc'[r] = "done"

LEMMA PutSteady ==
    ASSUME NEW r \in Requests, pc[r] # "done", NEW id, NEW row, rows' = Put(rows, id, row),
           \A q \in Requests : pc[q] = "done" => pc'[q] = "done",
           id \in DOMAIN rows =>
              /\ row.table = rows[id].table /\ row.user = rows[id].user
              /\ row.workspace = rows[id].workspace,
           id \notin DOMAIN rows => id[1] = r
    PROVE  Steady
BY DEF Put, Steady

LEMMA StepMoves ==
    ASSUME NEW r \in Requests, Step(r)
    PROVE  pc[r] \in Running /\ (pc' = pc \/ \E point : Goto(r, point))
<1>1. ASSUME NEW point, Patch(r, point) \/ Erase(r, point, {}) \/ Erase(r, point, VersionsOf(cmd[r].target))
      PROVE  At(r, point) /\ \E next : Goto(r, next)
  BY <1>1 DEF Patch, Erase, Execute
<1>2. ASSUME NEW next, Stage(r, next) PROVE \E point : Goto(r, point)
  BY <1>2 DEF Stage
<1>3. CASE InsertWorkspace(r) \/ InsertDefault(r) \/ InsertWorkflow(r) \/ InsertVersion(r)
            \/ PointVersion(r) \/ Rename(r)
  BY <1>2, <1>3 DEF InsertWorkspace, InsertDefault, InsertWorkflow, InsertVersion, PointVersion,
                    Rename, At, Running, TxPoints
<1>4. CASE InsertFolder(r) \/ InsertVariable(r) \/ InsertCredential(r)
  BY <1>4 DEF InsertFolder, InsertVariable, InsertCredential, Execute, At, Running, OneShots
<1>5. CASE LockFolder(r) \/ FindDefaults(r) \/ Cleared(r) \/ Commit(r)
            \/ \E id \in targets[r] : ClearDefault(r, id)
  BY <1>5 DEF LockFolder, FindDefaults, Cleared, Commit, ClearDefault, At, Running, TxPoints
<1>6. CASE PatchWorkflow(r) \/ PatchVariable(r) \/ PatchCredential(r)
  BY <1>1, <1>6 DEF PatchWorkflow, PatchVariable, PatchCredential, At, Running, OneShots, Patches
<1>7. CASE EraseWorkflow(r) \/ EraseVariable(r) \/ EraseCredential(r)
  BY <1>1, <1>7 DEF EraseWorkflow, EraseVariable, EraseCredential, At, Running, OneShots, Erasures
<1> QED
  BY <1>3, <1>4, <1>5, <1>6, <1>7 DEF Step

LEMMA DoneStays ==
    ASSUME TablesInv, [Next]_vars, NEW q \in Requests, pc[q] = "done"
    PROVE  pc'[q] = "done"
<1>1. "done" \notin Running /\ pc \in [Requests -> {"idle"} \cup Running \cup Finished]
  BY DEF TablesInv, Domains, Running, TxPoints, OneShots, Patches, Erasures
<1>2. ASSUME NEW r \in Requests, Arrive(r) PROVE pc'[q] = pc[q]
  BY <1>1, <1>2, ArriveUnwritten DEF Arrive, At, Goto
<1>3. ASSUME NEW r \in Requests, Step(r) PROVE pc'[q] = pc[q]
  BY <1>1, <1>3, StepMoves DEF Goto
<1>4. ASSUME NEW r \in Requests, Die(r) \/ Cancel(r) PROVE pc'[q] = pc[q]
  <2>1. pc[r] \in Running
    BY <1>4, OnlyRunningWait DEF Die, Cancel, InCircle
  <2> QED
    BY <1>1, <1>4, <2>1 DEF Die, Cancel, Goto
<1> QED
  BY <1>2, <1>3, <1>4 DEF Next, Quiescent, vars

LEMMA StepSteady ==
    ASSUME TablesInv, NEW r \in Requests, Step(r), rows' # rows,
           \A q \in Requests : pc[q] = "done" => pc'[q] = "done"
    PROVE  Steady
<1>1. pc[r] \in Running /\ pc[r] # "done"
  BY StepMoves DEF Running, TxPoints, OneShots, Patches, Erasures
<1>2. CASE \/ InsertFolder(r) \/ InsertVariable(r) \/ InsertCredential(r)
           \/ PatchWorkflow(r) \/ PatchVariable(r) \/ PatchCredential(r)
  <2>1. /\ rows' = Put(rows, Target(r), Written(r))
        /\ \/ pc[r] \in {"insertFolder", "insertVariable", "insertCredential"}
           \/ pc[r] \in Patches /\ Matches(r)
    BY <1>2 DEF InsertFolder, InsertVariable, InsertCredential, PatchWorkflow, PatchVariable,
                PatchCredential, Patch, Execute, At, Patches
  <2> QED
    BY <1>1, <2>1, ExecuteWrites, PutSteady
<1>3. CASE EraseWorkflow(r) \/ EraseVariable(r) \/ EraseCredential(r)
  <2>1. pc[r] \in Erasures
    BY <1>3 DEF EraseWorkflow, EraseVariable, EraseCredential, Erase, At, Erasures
  <2>2. Subject(cmd[r].op) \in Filed
    BY <1>1, <2>1, RunningAdmitted DEF Admitted, OpsAt, Subject, Filed, Erasures
  <2>3. \E gone : /\ rows' = Without(rows, gone)
                  /\ \A id \in gone \cap DOMAIN rows : rows[id].table \notin {"workspace", "folder"}
    <3>1. Matches(r) => rows[cmd[r].target].table \in Filed
      BY <2>2 DEF Matches
    <3> QED
      BY <1>3, <3>1 DEF EraseWorkflow, EraseVariable, EraseCredential, Erase, VersionsOf, Filed
  <2>4. PICK gone : /\ rows' = Without(rows, gone)
                    /\ \A id \in gone \cap DOMAIN rows : rows[id].table \notin {"workspace", "folder"}
    BY <2>3
  <2>5. DOMAIN rows' = DOMAIN rows \ gone /\ \A id \in DOMAIN rows \ gone : rows'[id] = rows[id]
    BY <2>4 DEF Without
  <2> QED
    BY <2>4, <2>5 DEF Steady
<1>4. CASE Commit(r)
  <2>1. pc[r] = "commit"
    BY <1>4 DEF Commit, At
  <2>2. /\ DOMAIN rows' = DOMAIN rows \cup DOMAIN draft[r]
        /\ \A x \in DOMAIN rows :
             /\ x \in DOMAIN rows' /\ rows'[x].table = rows[x].table
             /\ rows'[x].user = rows[x].user /\ rows'[x].workspace = rows[x].workspace
    BY <1>4, CommitAgrees
  <2>3. \A id \in DOMAIN rows' \ DOMAIN rows : id[1] = r
    BY <2>1, <2>2, CommitsMinted
  <2> QED
    BY <1>1, <2>2, <2>3 DEF Steady
<1>5. CASE \/ InsertWorkspace(r) \/ InsertDefault(r) \/ LockFolder(r) \/ Rename(r)
           \/ FindDefaults(r) \/ Cleared(r) \/ (\E id \in targets[r] : ClearDefault(r, id))
           \/ InsertWorkflow(r) \/ InsertVersion(r) \/ PointVersion(r)
  BY <1>5 DEF InsertWorkspace, InsertDefault, LockFolder, Rename, FindDefaults, Cleared,
              ClearDefault, InsertWorkflow, InsertVersion, PointVersion, Stage, Rollback
<1> QED
  BY <1>2, <1>3, <1>4, <1>5 DEF Step

LEMMA StillSteady ==
    ASSUME rows' = rows, \A q \in Requests : pc[q] = "done" => pc'[q] = "done" PROVE Steady
BY DEF Steady

LEMMA WritesSteady == ASSUME TablesInv, [Next]_vars PROVE Steady
<1>1. \A q \in Requests : pc[q] = "done" => pc'[q] = "done"
  BY DoneStays
<1>2. CASE rows' = rows
  BY <1>1, <1>2, StillSteady
<1>3. CASE rows' # rows
  <2>1. PICK r \in Requests : Step(r)
    BY <1>3, ArriveUnwritten DEF Next, Quiescent, vars, Die, Cancel, Rollback
  <2> QED
    BY <1>1, <1>3, <2>1, StepSteady
<1> QED
  BY <1>2, <1>3
=============================================================================
