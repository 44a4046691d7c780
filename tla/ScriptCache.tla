---- MODULE ScriptCache ----
(***************************************************************************)
(* The scripts of the servers: which folders they come from, what is kept  *)
(* of them, and for which version of the server they were cut.             *)
(*                                                                         *)
(* A bundle is named by the identity of the server (its dbms and version). *)
(* The scripts of one context are read together and cached as a bunch; a   *)
(* script is then cut to the parts for the version the connection tells.   *)
(* PostgreSQL's version is that of an open link; a data source of odbc is  *)
(* asked by a script of its own bundle.                                    *)
(***************************************************************************)
EXTENDS Integers, Sequences, FiniteSets, SequencesExt

CONSTANTS
    PgServers, OdbcServers, \* identities of bundles
    ServerVersion,          \* the version every server has
    OwnInUserDir,           \* servers with a folder of their own only in the user's directory
    Directives,             \* what the script "table" may be written of: [is, least]
    MaxDirectives,          \* bound: of that script
    MaxCacheCalls           \* bound: actions and directives of one behaviour, one action at least

ASSUME ScriptCacheBounds ==
    /\ ServerVersion \in Nat /\ {MaxDirectives, MaxCacheCalls} \subseteq Nat
    /\ Directives \subseteq [is : {"if", "elif", "else", "endif"}, least : Nat]

VARIABLES
    body,       \* the directives of the script "table"
    assets,     \* the user's directory is in use (the setting "assetsDir")
    folders,    \* scriptRootCache: per bundle, the folder of its scripts
    bunches,    \* _scripts
    lexers,     \* lexerCache: whether a lexer is kept, and of which assets
    painted,    \* the assets the editors are highlighted with, per server
    open,       \* servers the node's link is open to
    cacheCalls

cacheVars == <<body, assets, folders, bunches, lexers, painted, open, cacheCalls>>

Servers == PgServers \cup OdbcServers
Contexts == {"root", "tree", "content", "preview", "autocomplete"}
Newest == ServerVersion + 1     \* 0x7fffffff: no version is known
None == "none"

Called ==
    /\ cacheCalls = 0 \/ Len(body) + cacheCalls < MaxCacheCalls
    /\ cacheCalls' = cacheCalls + 1

-----------------------------------------------------------------------------
\* resolveScriptRoot: the first folder, of all roots, the dbms' name contains;
\* odbc falls back to "default", PostgreSQL to the folder of all scripts.
Winner(id, user) ==
    IF id \notin OwnInUserDir \/ user THEN "own"
    ELSE IF id \in OdbcServers THEN "default" ELSE "scripts"
ResolveScriptRoot(s, id) ==
    IF s.folders[id] # None THEN s ELSE [s EXCEPT !.folders[id] = Winner(id, assets)]

\* versionSpecificPart: a text stands in front of every directive and after the
\* last; a frame remembers whether the enclosing block is emitted and whether
\* one of its own branches has been. A directive without a version has 0.
PastDirective(script, version, s, i) ==
    LET d == script[i]
        holds == d.is = "else" \/ version >= d.least
        passed == IF s.emits THEN [s EXCEPT !.kept = @ \cup {i}] ELSE s
        frame == Last(s.stack)
        take == IF d.is = "if" THEN s.emits /\ holds
                ELSE frame.enclosing /\ ~frame.taken /\ holds
    IN
    IF s.thrown \/ (d.is # "if" /\ s.stack = <<>>) THEN [s EXCEPT !.thrown = TRUE]
    ELSE IF d.is = "if" THEN
        [passed EXCEPT !.emits = take,
                       !.stack = Append(@, [enclosing |-> s.emits, taken |-> take])]
    ELSE IF d.is = "endif" THEN
        [passed EXCEPT !.emits = frame.enclosing, !.stack = Front(@)]
    ELSE [passed EXCEPT !.emits = take, !.stack[Len(s.stack)].taken = @ \/ take]
Cut(script, version) ==
    LET after[i \in 0..Len(script)] ==
            IF i = 0 THEN [kept |-> {}, emits |-> TRUE, stack |-> <<>>, thrown |-> FALSE]
            ELSE PastDirective(script, version, after[i - 1], i)
        end == after[Len(script)]
    IN [kept |-> end.kept \cup {Len(script) + 1}, thrown |-> end.thrown \/ end.stack # <<>>]

\* The scripts of a folder: the roots are merged file by file, the user's
\* first; the general folders have none for a context.
Names == {"version", "table"}
Merged(folder, context) ==
    [name \in {n \in Names : folder = "own" /\ (n = "version" => context = "root")} |->
        IF assets /\ name = "table" THEN "user" ELSE "shipped"]
CutTo(files, version) ==
    [name \in DOMAIN files |->
        [from |-> files[name],
         kept |-> IF name = "table" THEN Cut(body, version).kept ELSE {1}]]
NoScripts == [files |-> <<>>, version |-> 0]

\* A mutant: the files read before one that cannot be read are kept.
PublishAsRead(s, id, context, version, readable) ==
    LET root == ResolveScriptRoot(s, id)
        files == Merged(root.folders[id], context)
        cut == CutTo(files, version)
        some == [n \in (DOMAIN files) \ (IF readable THEN {} ELSE {"table"}) |-> cut[n]]
    IN [root EXCEPT !.bunches[id][context] = [files |-> some, version |-> version],
                    !.thrown = ~readable]

\* A context is read aside and published at the end, or not at all.
Publish(s, id, context, version, readable) ==
    LET root == ResolveScriptRoot(s, id)
        files == Merged(root.folders[id], context)
    IN
    IF ~readable \/ ("table" \in DOMAIN files /\ Cut(body, version).thrown)
    THEN [root EXCEPT !.thrown = TRUE]
    ELSE [root EXCEPT !.bunches[id][context] =
            [files |-> CutTo(files, version), version |-> version]]

Cached(s, id, context) == DOMAIN s.bunches[id][context].files # {}

\* dbmsComparableVersion of odbc: the script "version" of the root context,
\* which is itself cut to version -1; it runs in a link it opens if it can.
VersionKnown(read, id, reachable) ==
    [state |-> read,
     version |-> IF reachable /\ "version" \in DOMAIN read.bunches[id]["root"].files
                 THEN ServerVersion ELSE Newest]
OdbcVersion(s, id, readable, reachable) ==
    VersionKnown(IF Cached(s, id, "root") THEN s ELSE Publish(s, id, "root", -1, readable), id, reachable)
\* ... and of PostgreSQL: of the link, when it is open.
ComparableVersion(s, id, linked, readable, reachable) ==
    IF id \in OdbcServers THEN OdbcVersion(s, id, readable, reachable)
    ELSE [state |-> s, version |-> IF linked THEN ServerVersion ELSE Newest]

\* refresh: the link is not opened for a bundle that is known already.
PublishFor(v, id, context, readable) ==
    IF v.state.thrown THEN v.state ELSE Publish(v.state, id, context, v.version, readable)
Reread(s, id, context, linked, readable, reachable) ==
    IF s.thrown THEN s
    ELSE IF context = "root" /\ id \in OdbcServers THEN Publish(s, id, context, -1, readable)
    ELSE PublishFor(ComparableVersion(s, id, linked, readable, reachable), id, context, readable)

\* getScript: an empty bunch is read again.
GetScript(s, id, context, linked, readable, reachable) ==
    IF Cached(s, id, context) THEN s ELSE Reread(s, id, context, linked, readable, reachable)

Now == [folders |-> folders, bunches |-> bunches, thrown |-> FALSE]
Keeps(s) == folders' = s.folders /\ bunches' = s.bunches
-----------------------------------------------------------------------------
\* The tree opens the node's link before it asks for a script.
RunScript(id, context, readable) ==
    /\ Called
    /\ open' = open \cup {id}
    /\ Keeps(GetScript(Now, id, context, TRUE, readable, TRUE))
    /\ UNCHANGED <<body, assets, lexers, painted>>

\* The node's link is given back or dies; its identity stays.
CloseLink(id) ==
    /\ id \in open /\ Called
    /\ open' = open \ {id}
    /\ UNCHANGED <<body, assets, folders, bunches, lexers, painted>>

\* Completion in a tab: its own open connection, or, while that one runs a
\* query or is in a transaction, a clone nobody has opened.
onCompleterRequest(id, busy, readable) ==
    /\ Called
    /\ Keeps(GetScript(Now, id, "autocomplete", ~busy, readable, TRUE))
    /\ UNCHANGED <<body, assets, lexers, painted, open>>

\* F5 on a node: every context, then the dictionaries; a script that cannot
\* be read ends it.
Refresh(id, unreadable, reachable) ==
    LET step(s, context) == Reread(s, id, context, id \in open, context # unreadable, reachable)
        order == <<"root", "content", "preview", "autocomplete", "tree">>
        after[k \in 0..Len(order)] == IF k = 0 THEN Now ELSE step(after[k - 1], order[k])
        all == after[Len(order)]
    IN
    /\ Called
    /\ Keeps(all)
    /\ lexers' = IF all.thrown THEN lexers ELSE [x \in Servers |-> None]
    /\ UNCHANGED <<body, assets, painted, open>>

\* SqlLexer::sharedFor: a dictionary is read once per bundle, if it has one.
Using == IF assets THEN "user" ELSE "shipped"
UseLexer(id) ==
    LET s == ResolveScriptRoot(Now, id) IN
    /\ lexers[id] = None /\ s.folders[id] # "scripts" /\ Called
    /\ Keeps(s)
    /\ lexers' = [lexers EXCEPT ![id] = Using]
    /\ UNCHANGED <<body, assets, painted, open>>

\* QueryWidget::highlight of an editor of the server.
Highlight(id) ==
    /\ painted[id] = None /\ Called
    /\ Keeps(ResolveScriptRoot(Now, id))
    /\ painted' = [painted EXCEPT ![id] = Using]
    /\ UNCHANGED <<body, assets, lexers, open>>

\* A mutant: the cache of folders survives.
DropScripts ==
    /\ bunches' = [id \in Servers |-> [c \in Contexts |-> NoScripts]]
    /\ UNCHANGED folders

\* clearCache: the folders are searched again as well.
ClearCache ==
    /\ bunches' = [id \in Servers |-> [c \in Contexts |-> NoScripts]]
    /\ folders' = [id \in Servers |-> None]

\* reloadAssets: what is kept is dropped, the editors are highlighted anew.
ReloadAssets ==
    /\ Called
    /\ assets' = ~assets
    /\ ClearCache
    /\ lexers' = [id \in Servers |-> None]
    /\ painted' = [id \in Servers |-> IF painted[id] = None THEN None
                                      ELSE IF assets' THEN "user" ELSE "shipped"]
    /\ UNCHANGED <<body, open>>

\* The author of the script goes on with it, before anything has read it.
WriteScript(directive) ==
    /\ cacheCalls = 0 /\ Len(body) < MaxDirectives
    /\ body' = Append(body, directive)
    /\ UNCHANGED <<assets, folders, bunches, lexers, painted, open, cacheCalls>>
-----------------------------------------------------------------------------
CacheInit ==
    /\ body = <<>>
    /\ assets = FALSE
    /\ folders = [id \in Servers |-> None]
    /\ bunches = [id \in Servers |-> [c \in Contexts |-> NoScripts]]
    /\ lexers = [id \in Servers |-> None]
    /\ painted = [id \in Servers |-> None]
    /\ open = Servers
    /\ cacheCalls = 0

CacheNext ==
    \/ \E id \in Servers :
         \/ \E context \in Contexts \ {"autocomplete"}, readable \in BOOLEAN :
              RunScript(id, context, readable)
         \/ CloseLink(id)
         \/ \E busy, readable \in BOOLEAN : onCompleterRequest(id, busy, readable)
         \/ \E unreadable \in Contexts \cup {None}, reachable \in BOOLEAN :
              Refresh(id, unreadable, reachable)
         \/ UseLexer(id) \/ Highlight(id)
    \/ ReloadAssets
    \/ \E directive \in Directives : WriteScript(directive)

CacheSpec == CacheInit /\ [][CacheNext]_cacheVars
-----------------------------------------------------------------------------
CacheTypeOK ==
    /\ assets \in BOOLEAN /\ open \subseteq Servers
    /\ folders \in [Servers -> {None, "own", "default", "scripts"}]
    /\ \A id \in Servers, c \in Contexts :
         /\ DOMAIN bunches[id][c].files \subseteq Names
         /\ \A name \in DOMAIN bunches[id][c].files :
              bunches[id][c].files[name].kept \subseteq 1..(Len(body) + 1)
         /\ bunches[id][c].version \in {-1, 0, ServerVersion, Newest}
    /\ lexers \in [Servers -> {None, "user", "shipped"}]
    /\ painted \in [Servers -> {None, "user", "shipped"}]

\* What the directives mean, without a stack: the blocks a text is in, the
\* arms of a block up to the text, and the one arm whose texts are kept.
Is(script, i, kinds) == script[i].is \in kinds
Open(script, o, p) ==
    /\ o < p /\ Is(script, o, {"if"})
    /\ \A q \in o..(p - 1) :
         Cardinality({i \in o..q : Is(script, i, {"if"})})
             > Cardinality({i \in o..q : Is(script, i, {"endif"})})
BlocksOf(script, p) == {o \in 1..Len(script) : Open(script, o, p)}
Arms(script, o, p) == {o} \cup {a \in (o + 1)..(p - 1) :
    Is(script, a, {"elif", "else"}) /\ Open(script, o, a) /\ \A q \in BlocksOf(script, a) : q <= o}
Suits(script, a, version) == Is(script, a, {"else"}) \/ version >= script[a].least
FirstThatSuits(script, arms, version) ==
    LET now == CHOOSE a \in arms : \A b \in arms : b <= a IN
    {a \in arms : Suits(script, a, version)} = {now}
MeantFor(script, version) ==
    {p \in 1..(Len(script) + 1) :
        \A o \in BlocksOf(script, p) : FirstThatSuits(script, Arms(script, o, p), version)}
Balanced(script) ==
    /\ BlocksOf(script, Len(script) + 1) = {}
    /\ \A i \in DOMAIN script : Is(script, i, {"if"}) \/ BlocksOf(script, i) # {}

\* Whatever failed to be read and wherever the reading of one context led to
\* that of another, a bunch that is kept has all the scripts of its bundle,
\* each cut to the branches its directives mean for the bunch's version (the
\* first suitable one of a block, however deep; an unbalanced script is kept
\* by nobody), and everything kept comes from the folders that would win now
\* (refresh, versionSpecificPart, clearCache, resolveScriptRoot, reloadAssets).
BundlesWhole ==
    \A id \in Servers :
        /\ folders[id] \in {None, Winner(id, assets)}
        /\ \A c \in Contexts : Cached(Now, id, c) =>
             LET files == bunches[id][c].files
                 merged == Merged(folders[id], c)
             IN
             /\ DOMAIN files = DOMAIN merged
             /\ \A name \in DOMAIN files : files[name].from = merged[name]
             /\ Balanced(body) /\ files["table"].kept = MeantFor(body, bunches[id][c].version)
        /\ lexers[id] \in {None, Using} /\ painted[id] \in {None, Using}
====
