------------------------------- MODULE Router -------------------------------
(***************************************************************************)
(* router: registering handlers and dispatching a request to one of them.  *)
(*                                                                         *)
(* Routers form a tree.  route(pattern, f) makes a new router, lets f fill *)
(* it, and only then appends it to the router it was called on, so during  *)
(* the call f may itself call route: `building' is the stack of the        *)
(* routers whose route() call has not returned, the root at the bottom.    *)
(*                                                                         *)
(* A text is a sequence of tokens, the slash being one of them.            *)
(***************************************************************************)
EXTENDS Naturals, Sequences, TextUtils

CONSTANTS
    Patterns,    \* patterns passed to get, put, post and route
    Urls,        \* request targets passed to match
    MaxRouters,  \* bound: routers that are ever made
    MaxItems     \* bound: items of one router

ASSUME RouterAssumption ==
    /\ MaxRouters \in Nat \ {0}
    /\ MaxItems \in Nat
    /\ Patterns \union Urls \subseteq Seq(STRING)

VARIABLES
    items,       \* _items of each router made so far
    building     \* the routers whose route() has not returned: [router, parent, pattern]

vars == <<items, building>>

Root == 1

NoRouter  == 0
\* Each call of get, put and post is given a handler of its own: it is named
\* by the place its item gets.
Handler(r, n) == <<"handler", r, n>>
NoHandler     == <<"nullptr">>

\* What else a request may come to: no handler, or the end of the program.
NoMatch == <<"no match">>
Crash   == <<"crash">>

Init ==
    /\ items = <<<<>>>>
    /\ building = <<[router |-> Root, parent |-> NoRouter, pattern |-> <<>>]>>

-----------------------------------------------------------------------------
(* Matching *)

\* path: the segments between slashes; empty ones are dropped.
Path(text) == Split(text, <<"/">>)

Wildcard == <<"*">>

\* The loop of url_matches_pattern over the segments p of the pattern and u
\* of the url ends at the first segment that is a wildcard, or lies behind
\* the end of the url, or differs.  The test meant for the second case lets
\* one more segment through, and the code reads the segment after the last
\* one of the url: what comes of that is undefined.
Ends(p, u, i) == p[i] = Wildcard \/ i > Len(u) \/ p[i] # u[i]

\* The variant that compares whole paths.
SegmentsMatchExactly(p, u) == IF p = u THEN "yes" ELSE "no"

SegmentsMatch(p, u) ==
    LET i == CHOOSE k \in 1 .. (Len(p) + 1) :
                /\ k \in DOMAIN p => Ends(p, u, k)
                /\ \A j \in 1 .. (k - 1) : ~Ends(p, u, j)
    IN  CASE i > Len(p)               -> "yes"
          [] i <= Len(p) /\ p[i] = Wildcard -> "yes"
          [] i <= Len(p) /\ p[i] # Wildcard /\ i > Len(u)  -> "undefined"
          [] i <= Len(p) /\ p[i] # Wildcard /\ i <= Len(u) -> "no"

\* url_matches_pattern
Verdict == [url \in Urls |-> [pattern \in Patterns |->
              SegmentsMatch(Path(pattern), Path(url))]]

\* match: what a request for url may come to, starting at the first item of
\* the root: a handler is called, or none, or the undefined read ends the
\* program or answers either way.  A nested router is given the whole url,
\* and its answer is final.
Match(url) ==
    LET from[at \in (DOMAIN items) \X (1 .. (MaxItems + 1))] ==
          IF at[2] > Len(items[at[1]]) THEN {NoMatch}
          ELSE LET item    == items[at[1]][at[2]]
                   verdict == Verdict[url][item.pattern]
                   taken   == IF item.router # NoRouter THEN from[<<item.router, 1>>]
                              ELSE {item.handler}
                   further == from[<<at[1], at[2] + 1>>]
               IN  CASE verdict = "yes" -> taken
                     [] verdict = "no"  -> further
                     [] OTHER           -> taken \union further \union {Crash}
    IN  from[<<Root, 1>>]

-----------------------------------------------------------------------------
(* Registration *)

HasRoom(r) == Len(items[r]) < MaxItems

Top == building[Len(building)]

\* get, put and post differ in the method they store, which nobody reads.
\* The callback of route() may also call the routers around its own.
Register(k, pattern) ==
    LET r == building[k].router
    IN  /\ HasRoom(r)
        /\ items' = [items EXCEPT ![r] = Append(@,
                        [pattern |-> pattern, handler |-> Handler(r, Len(@) + 1),
                         router |-> NoRouter])]
        /\ UNCHANGED building

\* The variant that appends the new router before the callback fills it.
RouteBeginAttached(k, pattern) ==
    /\ Len(items) < MaxRouters
    /\ HasRoom(building[k].router)
    /\ items' = Append([items EXCEPT ![building[k].router] = Append(@,
                            [pattern |-> pattern, handler |-> NoHandler,
                             router |-> Len(items) + 1])], <<>>)
    /\ building' = Append(building, [router  |-> Len(items) + 1,
                                     parent  |-> building[k].router,
                                     pattern |-> pattern])

\* route() up to the call of its callback.
RouteBegin(k, pattern) ==
    /\ Len(items) < MaxRouters
    /\ items' = Append(items, <<>>)
    /\ building' = Append(building, [router  |-> Len(items) + 1,
                                     parent  |-> building[k].router,
                                     pattern |-> pattern])

\* The variant that appends the router made last, which a nested call made.
RouteEndLastMade ==
    /\ Top.parent # NoRouter
    /\ HasRoom(Top.parent)
    /\ items' = [items EXCEPT ![Top.parent] = Append(@,
                    [pattern |-> Top.pattern, handler |-> NoHandler,
                     router |-> Len(items)])]
    /\ building' = SubSeq(building, 1, Len(building) - 1)

\* route() after its callback has returned.
RouteEnd ==
    /\ Top.parent # NoRouter
    /\ HasRoom(Top.parent)
    /\ items' = [items EXCEPT ![Top.parent] = Append(@,
                    [pattern |-> Top.pattern, handler |-> NoHandler,
                     router |-> Top.router])]
    /\ building' = SubSeq(building, 1, Len(building) - 1)

\* The callback throws, and the exception is caught k calls further down:
\* the routers of the calls it leaves are not appended to anything.
RouteThrows(k) ==
    /\ k < Len(building)
    /\ building' = SubSeq(building, 1, k)
    /\ UNCHANGED items

Next ==
    \/ \E k \in DOMAIN building :
          \/ \E pattern \in Patterns :
                Register(k, pattern) \/ RouteBegin(k, pattern)
          \/ RouteThrows(k)
    \/ RouteEnd

Spec == Init /\ [][Next]_vars

-----------------------------------------------------------------------------
(* Properties *)

\* The items that route to a router.
Parents(r) ==
    {at \in (DOMAIN items) \X (1 .. MaxItems) :
        at[2] <= Len(items[at[1]]) /\ items[at[1]][at[2]].router = r}

InProgress(r) == \E k \in DOMAIN building : building[k].router = r

\* The destructor deletes every router but the root exactly once: one item
\* routes to it, of a router made before it, or nobody does yet.
DeletedOnce ==
    \A r \in DOMAIN items :
       /\ \A a, b \in Parents(r) : a = b
       /\ \A a \in Parents(r) : a[1] < r
       /\ r = Root \/ InProgress(r) => Parents(r) = {}

\* A router is only lost, to be neither used nor deleted, by an exception.
Lost(r) == ~InProgress(r) /\ Parents(r) = {}

OnlyThrowsLose ==
    [][ \A r \in DOMAIN items :
           ~Lost(r) /\ Lost(r)' => \E k \in DOMAIN building : RouteThrows(k) ]_vars

\* The comment of url_matches_pattern: the wildcard ends the pattern.
Fixed(p) ==
    LET wild == {i \in DOMAIN p : p[i] = Wildcard}
    IN  IF wild = {} THEN p
        ELSE SubSeq(p, 1, (CHOOSE i \in wild : \A j \in wild : i <= j) - 1)

IsPrefixOf(s, t) == Len(s) <= Len(t) /\ s = SubSeq(t, 1, Len(s))

\* A pattern matches the urls that begin with its segments before the first
\* wildcard, and what it does with an url that ends within them is undefined.
MatchIsPrefix ==
    \A r \in DOMAIN items : \A i \in DOMAIN items[r] : \A url \in Urls :
       LET p == Path(items[r][i].pattern)
           u == Path(url)
       IN  Verdict[url][items[r][i].pattern] =
             IF IsPrefixOf(Fixed(p), u) THEN "yes"
             ELSE IF IsPrefixOf(u, Fixed(p)) THEN "undefined"
             ELSE "no"

\* A handler registered behind an item whose fixed segments are a prefix of
\* its own is never called, but for an undefined read.
ShadowedIsNeverCalled ==
    \A url \in Urls, i \in DOMAIN items[Root] :
       LET mine == items[Root][i]
       IN  /\ mine.router = NoRouter
           /\ \E j \in 1 .. (i - 1) :
                 IsPrefixOf(Fixed(Path(items[Root][j].pattern)),
                            Fixed(Path(mine.pattern)))
           => Crash \in Match(url) \/ mine.handler \notin Match(url)
=============================================================================
