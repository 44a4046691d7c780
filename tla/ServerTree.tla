---- MODULE ServerTree ----
(***************************************************************************)
(* The tree of servers and their databases, the list of servers in the    *)
(* settings, and what is remembered under a server's id.                   *)
(*                                                                         *)
(* A server's id is given by the first launch that finds its entry, and    *)
(* its connections carry it: to the databases below it, to the tabs cloned *)
(* from them and to the panel of the search in files.  "key" is a history  *)
(* value that names the entry itself, for the properties.                  *)
(***************************************************************************)
EXTENDS Integers, Sequences, FiniteSets, SequencesExt, FiniteSetsExt

CONSTANTS
    Strings,        \* connection strings
    Databases,      \* the sequence of databases every server has
    Folders,        \* root folders of the search in files
    MaxServers,     \* bound: entries at one time
    MaxKeys,        \* bound: entries ever added
    MaxLaunches,    \* bound: restarts of the program
    MaxTurns        \* bound: actions of one behaviour

ASSUME ServerTreeBounds ==
    /\ {MaxServers, MaxKeys, MaxLaunches, MaxTurns} \subseteq Nat
    /\ "none" \notin Strings \cup Folders
    /\ Databases \in Seq(Range(Databases))

VARIABLES
    servers,    \* the children of the root node
    settings,   \* the array "servers" of the settings file
    tab,        \* the connection of an editor tab
    profile,    \* the panel: the id of its connection (0: none), its entry, its folder
    roots,      \* the folders kept in the settings, by id
    removedIds, \* history: ids of removed servers
    keys,       \* history: entries added so far
    launches, turns

treeVars == <<servers, settings, tab, profile, roots, removedIds, keys, launches, turns>>

NoLink == [string |-> "none", database |-> "none", id |-> 0, key |-> 0, up |-> FALSE, busy |-> FALSE]
NewLink(cs, db, id, key, up) ==
    [string |-> cs, database |-> db, id |-> id, key |-> key, up |-> up, busy |-> FALSE]

\* A node of a database: its own connection, whether its branch is expanded
\* and filled, and whether it may be filled (ParentRole).
DatabaseNode(donor, db) ==
    [database |-> db, link |-> NewLink(donor.string, db, donor.id, donor.key, FALSE),
     expanded |-> FALSE, filled |-> FALSE, parent |-> TRUE]

\* A node of a server.
ServerNode(entry) ==
    [key |-> entry.key, string |-> entry.string, id |-> entry.id,
     link |-> NoLink, parent |-> FALSE, children |-> <<>>]

Entry(node) == [key |-> node.key, string |-> node.string, id |-> node.id]

\* saveConnectionSettings: the array is written anew from the tree.
SaveConnectionSettings(list) == settings' = [i \in DOMAIN list |-> Entry(list[i])]

Turn == turns < MaxTurns /\ turns' = turns + 1

-----------------------------------------------------------------------------
\* fillChildren of the root: entries without an id are given the next ones.
NextId(list) == 1 + Max({0} \cup {list[i].id : i \in DOMAIN list})
WithIds(list) ==
    [i \in DOMAIN list |->
        IF list[i].id # 0 THEN list[i]
        ELSE [list[i] EXCEPT !.id = NextId(list)
                + Cardinality({j \in DOMAIN list : j < i /\ list[j].id = 0})]]
\* A mutant: the ids are used, but never written back.
FillRootOnly(list) ==
    /\ servers' = [i \in DOMAIN list |-> ServerNode(WithIds(list)[i])]
    /\ settings' = list

FillRoot(list) ==
    /\ servers' = [i \in DOMAIN list |-> ServerNode(WithIds(list)[i])]
    /\ IF \E i \in DOMAIN list : list[i].id = 0
         THEN SaveConnectionSettings(servers')
         ELSE settings' = list

\* savePathForConnection: kept under the id of the panel's connection.
Remembered ==
    IF profile.id = 0 \/ profile.folder = "none" THEN roots
    ELSE [roots EXCEPT ![profile.id] = [folder |-> profile.folder, by |-> profile.key]]

\* The panel saves its folder on exit; the next launch has no connection yet.
Relaunch ==
    /\ launches < MaxLaunches /\ Turn
    /\ launches' = launches + 1
    /\ FillRoot(settings)
    /\ roots' = Remembered
    /\ profile' = [profile EXCEPT !.id = 0, !.key = 0]
    /\ tab' = NoLink
    /\ UNCHANGED <<removedIds, keys>>

\* addServer: no id in the session that adds it (names are never refused: a
\* server's DisplayRole is not set, so the check compares with nothing).
AddServer(cs) ==
    /\ Len(servers) < MaxServers /\ keys < MaxKeys /\ Turn
    /\ keys' = keys + 1
    /\ servers' = Append(servers, ServerNode([key |-> keys + 1, string |-> cs, id |-> 0]))
    /\ SaveConnectionSettings(servers')
    /\ UNCHANGED <<tab, profile, roots, removedIds, launches>>

\* removeConnection: the links of the subtree are closed with the nodes.
RemoveConnection(i) ==
    /\ Turn
    /\ servers' = RemoveAt(servers, i)
    /\ removedIds' = removedIds \cup {servers[i].id}
    /\ SaveConnectionSettings(servers')
    /\ UNCHANGED <<tab, profile, roots, keys, launches>>

\* A mutant: the node is altered, the settings are not written.
AlterUnsaved(i, cs) ==
    /\ cs # servers[i].string /\ Turn
    /\ servers' = [servers EXCEPT ![i].string = cs]
    /\ UNCHANGED <<settings, tab, profile, roots, removedIds, keys, launches>>

\* alterConnection: what is connected stays as it is.
AlterConnection(i, cs) ==
    /\ cs # servers[i].string /\ Turn
    /\ servers' = [servers EXCEPT ![i].string = cs]
    /\ SaveConnectionSettings(servers')
    /\ UNCHANGED <<tab, profile, roots, removedIds, keys, launches>>

-----------------------------------------------------------------------------
\* Everything below leaves the list, its settings and what is kept alone.
Still == UNCHANGED <<settings, profile, roots, removedIds, keys, launches>>

\* fillChildren of a server: its databases take their connections from the
\* donor; a link that cannot be opened leaves the node childless, and no
\* parent any more. An open link is not asked again.
Opens(link, opens) == link.up => opens
Filled(node, opens) ==
    IF node.link = NoLink \/ ~opens THEN [node EXCEPT !.parent = FALSE]
    ELSE [node EXCEPT !.link.up = TRUE,
                      !.children = [j \in DOMAIN Databases |-> DatabaseNode(node.link, Databases[j])],
                      !.parent = Databases # <<>>]

\* on_objectsView_activated: only a node that is not a parent connects; it is
\* given the connection once the link has opened, and its branch is expanded.
Connected(node, link) == Filled([node EXCEPT !.link = link, !.parent = TRUE], TRUE)
Activate(i) ==
    LET node == servers[i] IN
    /\ ~node.parent /\ Turn
    /\ servers' = [servers EXCEPT
         ![i] = Connected(node, NewLink(node.string, "none", node.id, node.key, TRUE))]
    /\ UNCHANGED tab /\ Still

\* The view fills a branch that has been emptied.
FetchMore(i, opens) ==
    /\ servers[i].parent /\ servers[i].children = <<>> /\ Opens(servers[i].link, opens)
    /\ Turn
    /\ servers' = [servers EXCEPT ![i] = Filled(@, opens)]
    /\ UNCHANGED tab /\ Still

\* The branch of a database is expanded, and filled when it is empty, also
\* one that is still expanded after a refresh; or it is collapsed.
ExpandDatabase(i, j, opens) ==
    LET node == servers[i].children[j] IN
    /\ ~node.expanded \/ ~node.filled
    /\ node.parent /\ Opens(node.link, opens) /\ Turn
    /\ servers' = [servers EXCEPT ![i].children[j] =
         IF node.filled THEN [node EXCEPT !.expanded = TRUE]
         ELSE [node EXCEPT !.link.up = opens, !.filled = opens, !.parent = opens, !.expanded = TRUE]]
    /\ UNCHANGED tab /\ Still
CollapseDatabase(i, j) ==
    /\ servers[i].children[j].expanded /\ Turn
    /\ servers' = [servers EXCEPT ![i].children[j].expanded = FALSE]
    /\ UNCHANGED tab /\ Still

\* releaseIdleDatabaseConnection: the link of a collapsed database is given
\* back, unless a query or a transaction holds it.
Released(node) ==
    IF node.expanded \/ ~node.link.up \/ node.link.busy THEN node
    ELSE [node EXCEPT !.link.up = FALSE]

\* scriptSelectedObjects of a database node: the scripts run in its
\* connection (one may leave a transaction open), which then goes back; of a
\* server's node: its link is opened again.
Scripted(node, opens, transaction) ==
    LET link == [node.link EXCEPT !.up = TRUE, !.busy = @ \/ transaction]
    IN IF opens THEN Released([node EXCEPT !.link = link]) ELSE node
SelectDatabase(i, j, opens, transaction) ==
    LET node == servers[i].children[j] IN
    /\ Opens(node.link, opens) /\ (transaction => opens) /\ Turn
    /\ servers' = [servers EXCEPT ![i].children[j] = Scripted(node, opens, transaction)]
    /\ UNCHANGED tab /\ Still
SelectServer(i) ==
    /\ servers[i].link # NoLink /\ ~servers[i].link.up /\ Turn
    /\ servers' = [servers EXCEPT ![i].link.up = TRUE]
    /\ UNCHANGED tab /\ Still

\* on_actionNew_triggered: the link is opened, the tab gets a clone, and the
\* link of a collapsed database goes back.
Clone(link) == [link EXCEPT !.up = FALSE, !.busy = FALSE]
NewTabOf(i, j) ==
    LET node == servers[i].children[j] IN
    /\ Turn
    /\ servers' = [servers EXCEPT ![i].children[j] = Released([node EXCEPT !.link.up = TRUE])]
    /\ tab' = Clone(node.link)
    /\ Still
NewTab(i) ==
    /\ servers[i].link # NoLink /\ Turn
    /\ servers' = [servers EXCEPT ![i].link.up = TRUE]
    /\ tab' = Clone(servers[i].link)
    /\ Still

\* A mutant: the databases of the old connection stay in the tree.
DisconnectAlone(i) ==
    /\ servers[i].link # NoLink /\ Turn
    /\ servers' = [servers EXCEPT ![i].link = NoLink, ![i].parent = FALSE]
    /\ UNCHANGED tab /\ Still

\* removeRows of all the children; their links go with the nodes.
Emptied(node) == [node EXCEPT !.children = <<>>]

\* "Disconnect": the subtree goes, then the server's own connection.
Disconnect(i) ==
    /\ servers[i].link # NoLink /\ Turn
    /\ servers' = [servers EXCEPT ![i] = [Emptied(@) EXCEPT !.link = NoLink, !.parent = FALSE]]
    /\ UNCHANGED tab /\ Still

\* The menu of a server; the question before "Delete" may be answered by No,
\* and the dialog of "Modify" left.
ContextMenu(i) ==
    \/ servers[i].link = NoLink /\ Activate(i)
    \/ Disconnect(i)
    \/ \E cs \in Strings : AlterConnection(i, cs)
    \/ RemoveConnection(i)

\* on_actionRefresh_triggered: the children go, the node remains a parent and
\* is scripted as if selected anew.
RefreshServer(i, opens) ==
    /\ servers[i].children # <<>> /\ Opens(servers[i].link, opens) /\ Turn
    /\ servers' = [servers EXCEPT ![i] = [Emptied(@) EXCEPT !.link.up = opens]]
    /\ UNCHANGED tab /\ Still
RefreshDatabase(i, j, opens, transaction) ==
    LET node == servers[i].children[j] IN
    /\ node.filled /\ Opens(node.link, opens) /\ (transaction => opens) /\ Turn
    /\ servers' = [servers EXCEPT ![i].children[j] =
         Scripted([node EXCEPT !.filled = FALSE], opens, transaction)]
    /\ UNCHANGED tab /\ Still

\* The server drops a link: the nodes keep their connections.
LinkLost(i) ==
    /\ servers[i].link.up /\ Turn
    /\ servers' = [servers EXCEPT ![i].link.up = FALSE]
    /\ UNCHANGED tab /\ Still
DatabaseLinkLost(i, j) ==
    /\ servers[i].children[j].link.up /\ Turn
    /\ servers' = [servers EXCEPT ![i].children[j].link = [@ EXCEPT !.up = FALSE, !.busy = FALSE]]
    /\ UNCHANGED tab /\ Still
-----------------------------------------------------------------------------
\* A mutant: the new profile is taken before the folder is saved.
SetConnectionProfileFirst(con) ==
    IF con.id = profile.id THEN UNCHANGED <<profile, roots>>
    ELSE /\ roots' = IF con.id = 0 THEN roots
                     ELSE [roots EXCEPT ![con.id] = [folder |-> profile.folder, by |-> profile.key]]
         /\ profile' = [id |-> con.id, key |-> IF con.id = 0 THEN 0 ELSE con.key,
                        folder |-> profile.folder]

\* setConnectionProfile: the folder shown goes to the connection it is shown
\* for, and the new connection's own one comes back; without one it stays.
SetConnectionProfile(con) ==
    IF con.id = profile.id THEN UNCHANGED <<profile, roots>>
    ELSE /\ roots' = Remembered
         /\ profile' = [id |-> con.id, key |-> IF con.id = 0 THEN 0 ELSE con.key,
                        folder |-> IF con.id # 0 /\ roots'[con.id].folder # "none"
                                   THEN roots'[con.id].folder ELSE profile.folder]

\* on_actionFind_in_files_triggered: with the tab's connection, or the node's.
FindInFiles(con) ==
    /\ con # NoLink /\ Turn
    /\ SetConnectionProfile(con)
    /\ UNCHANGED <<servers, settings, tab, removedIds, keys, launches>>

\* A folder is typed or browsed, and the search saves it.
Search(folder) ==
    /\ Turn
    /\ profile' = [profile EXCEPT !.folder = folder]
    /\ roots' = IF profile.id = 0 THEN roots
                ELSE [roots EXCEPT ![profile.id] = [folder |-> folder, by |-> profile.key]]
    /\ UNCHANGED <<servers, settings, tab, removedIds, keys, launches>>
-----------------------------------------------------------------------------
TreeInit ==
    /\ servers = <<>> /\ settings = <<>> /\ tab = NoLink
    /\ profile = [id |-> 0, key |-> 0, folder |-> "none"]
    /\ roots = [id \in 1..MaxKeys |-> [folder |-> "none", by |-> 0]]
    /\ removedIds = {} /\ keys = 0 /\ launches = 0 /\ turns = 0

TreeNext ==
    \/ Relaunch
    \/ \E cs \in Strings : AddServer(cs)
    \/ \E i \in DOMAIN servers :
         \/ ContextMenu(i)
         \/ servers[i].link # NoLink /\ Activate(i)
         \/ \E opens \in BOOLEAN : FetchMore(i, opens) \/ RefreshServer(i, opens)
         \/ LinkLost(i) \/ SelectServer(i) \/ NewTab(i)
         \/ FindInFiles(servers[i].link)
         \/ \E j \in DOMAIN servers[i].children :
              \/ \E opens \in BOOLEAN : ExpandDatabase(i, j, opens)
              \/ \E opens, transaction \in BOOLEAN :
                   SelectDatabase(i, j, opens, transaction) \/ RefreshDatabase(i, j, opens, transaction)
              \/ CollapseDatabase(i, j) \/ NewTabOf(i, j)
              \/ DatabaseLinkLost(i, j) \/ FindInFiles(servers[i].children[j].link)
    \/ FindInFiles(tab)
    \/ \E folder \in Folders : Search(folder)

TreeSpec == TreeInit /\ [][TreeNext]_treeVars
-----------------------------------------------------------------------------
Links == [string : Strings \cup {"none"}, database : Range(Databases) \cup {"none"},
          id : 0..MaxKeys, key : 0..MaxKeys, up : BOOLEAN, busy : BOOLEAN]

TreeTypeOK ==
    /\ \A i \in DOMAIN servers :
         /\ servers[i].key \in 1..keys /\ servers[i].id \in 0..MaxKeys
         /\ servers[i].string \in Strings /\ servers[i].link \in Links
    /\ tab \in Links
    /\ profile \in [id : 0..MaxKeys, key : 0..MaxKeys, folder : Folders \cup {"none"}]
    /\ roots \in [1..MaxKeys -> [folder : Folders \cup {"none"}, by : 0..MaxKeys]]

\* The list the next launch reads is the one on the screen, in its order, and
\* no two servers share an id, however servers were added, altered, removed
\* and given their ids (saveConnectionSettings, fillChildren of the root).
ListKept ==
    /\ Len(settings) = Len(servers)
    /\ \A i \in DOMAIN servers : settings[i] = Entry(servers[i])
    /\ \A i, j \in DOMAIN servers : i # j => servers[i].id # servers[j].id \/ servers[i].id = 0

\* The databases shown below a server connect with the string and the id its
\* own connection has, also after the entry was altered, the link was lost,
\* the branch filled again or the server connected anew (fillChildren,
\* on_objectsView_activated, alterConnection).
DatabasesOfTheirServer ==
    \A i \in DOMAIN servers : \A j \in DOMAIN servers[i].children :
        LET own == servers[i].link
            link == servers[i].children[j].link
        IN own # NoLink /\ link.string = own.string /\ link.id = own.id /\ link.key = servers[i].key

\* The folder kept under the id of a listed server was kept while the panel
\* had a connection of that very server, whatever was connected, cloned,
\* altered and restarted in between; an id that a removed server had may be
\* given again, and its folder with it (setConnectionProfile, WithIds).
RootsOwned ==
    \A i \in DOMAIN servers :
        LET id == servers[i].id IN
        id # 0 /\ roots[id].folder # "none" /\ id \notin removedIds => roots[id].by = servers[i].key
====
