---------------------------- MODULE RouterProofs ----------------------------
(***************************************************************************)
(* Registering and dispatching, whatever the patterns and the urls are, in *)
(* whatever order and from however deep a callback they are registered,    *)
(* whatever exceptions pass, for any number of routers and items.          *)
(*                                                                         *)
(* TreeInv says of the routers in progress what DeletedOnce does not: that *)
(* they were made one after the other, each for one made before it, and    *)
(* that no item routes to any of them yet.  GivenInv says of the items     *)
(* what they were given.                                                   *)
(*                                                                         *)
(* What a loop or a recursion of the matching computes is a matter of      *)
(* induction: the lemmas that need it define the set of the places the     *)
(* claim holds at and show that there is no least one outside of it.       *)
(***************************************************************************)
EXTENDS Router, WellFoundedInduction, SequenceTheorems, TLAPS

HandlerName == {NoHandler} \union {Handler(r, n) : r, n \in Nat}

Text == Patterns \union {<<>>}

Item  == [pattern : Text, handler : HandlerName, router : Nat]
Frame == [router : Nat, parent : Nat, pattern : Text]

TypeOK ==
    /\ items \in Seq(Seq(Item)) /\ Len(items) >= 1
    /\ building \in Seq(Frame) /\ Len(building) >= 1

\* An item routes to a router made after the one it is an item of, and to
\* one that no other item routes to.
ItemsInv ==
    /\ \A q \in DOMAIN items : \A i \in DOMAIN items[q] :
          items[q][i].router # NoRouter
             => q < items[q][i].router /\ items[q][i].router \in DOMAIN items
    /\ \A p, q \in DOMAIN items : \A i \in DOMAIN items[p], j \in DOMAIN items[q] :
          items[p][i].router # NoRouter /\ items[p][i].router = items[q][j].router
             => p = q /\ i = j

BuildingInv ==
    /\ building[1].router = Root /\ building[1].parent = NoRouter
    /\ \A k \in DOMAIN building :
          /\ building[k].router \in DOMAIN items
          /\ k > 1 => /\ building[k].parent \in DOMAIN items
                      /\ building[k].parent < building[k].router
    /\ \A k, l \in DOMAIN building :
          k < l => building[k].router < building[l].router
    /\ \A k \in DOMAIN building, q \in DOMAIN items : \A i \in DOMAIN items[q] :
          items[q][i].router # building[k].router

TreeInv == TypeOK /\ ItemsInv /\ BuildingInv

-----------------------------------------------------------------------------
(* What the operations do to the two sequences *)

\* One more item of router r.
LEMMA OneMoreItem ==
  ASSUME TypeOK, NEW r \in DOMAIN items, NEW x \in Item,
         items' = [items EXCEPT ![r] = Append(@, x)]
  PROVE  /\ items' \in Seq(Seq(Item))
         /\ Len(items') = Len(items) /\ DOMAIN items' = DOMAIN items
         /\ \A q \in DOMAIN items : q # r => items'[q] = items[q]
         /\ Len(items[r]) \in Nat /\ DOMAIN items[r] = 1 .. Len(items[r])
         /\ Len(items'[r]) = Len(items[r]) + 1
         /\ DOMAIN items'[r] = 1 .. (Len(items[r]) + 1)
         /\ \A i \in DOMAIN items[r] : items'[r][i] = items[r][i]
         /\ items'[r][Len(items[r]) + 1] = x
<1>1. items \in [1 .. Len(items) -> Seq(Item)] /\ Len(items) \in Nat
  BY DEF TypeOK
<1>2. items[r] \in Seq(Item)
  BY <1>1
<1>3. Append(items[r], x) \in Seq(Item)
  BY <1>2
<1>4. items' \in [1 .. Len(items) -> Seq(Item)]
  BY <1>1, <1>3
<1>5. items' \in Seq(Seq(Item)) /\ Len(items') = Len(items)
  BY <1>1, <1>4
<1>6. items'[r] = Append(items[r], x) /\ DOMAIN items' = DOMAIN items
  BY <1>1
<1>7. QED
  BY <1>1, <1>2, <1>5, <1>6

\* A new router without items, and the call that fills it.
LEMMA OneMoreRouter ==
  ASSUME TypeOK, items' = Append(items, <<>>)
  PROVE  /\ items' \in Seq(Seq(Item))
         /\ Len(items') = Len(items) + 1 /\ Len(items) \in Nat
         /\ DOMAIN items = 1 .. Len(items) /\ DOMAIN items' = 1 .. (Len(items) + 1)
         /\ \A q \in DOMAIN items : items'[q] = items[q]
         /\ items'[Len(items) + 1] = <<>>
<1>1. <<>> \in Seq(Item)
  OBVIOUS
<1>2. QED
  BY <1>1 DEF TypeOK

LEMMA OneMoreCall ==
  ASSUME TypeOK, NEW x \in Frame, building' = Append(building, x)
  PROVE  /\ building' \in Seq(Frame)
         /\ Len(building') = Len(building) + 1 /\ Len(building) \in Nat
         /\ DOMAIN building = 1 .. Len(building)
         /\ DOMAIN building' = 1 .. (Len(building) + 1)
         /\ \A k \in DOMAIN building : building'[k] = building[k]
         /\ building'[Len(building) + 1] = x
  BY DEF TypeOK

\* The calls that remain.
LEMMA FewerCalls ==
  ASSUME TypeOK, NEW n \in 1 .. Len(building), building' = SubSeq(building, 1, n)
  PROVE  /\ building' \in Seq(Frame)
         /\ Len(building') = n /\ n \in Nat
         /\ DOMAIN building = 1 .. Len(building) /\ DOMAIN building' = 1 .. n
         /\ \A k \in 1 .. n : k \in DOMAIN building /\ building'[k] = building[k]
  BY DEF TypeOK

LEMMA FramesAreNumbers ==
  ASSUME TypeOK
  PROVE  \A k \in DOMAIN building : building[k].router \in Nat /\ building[k].parent \in Nat
<1>1. \A k \in DOMAIN building : building[k] \in Frame
  BY DEF TypeOK
<1>2. QED
  BY <1>1 DEF Frame

-----------------------------------------------------------------------------
(* The steps *)

LEMMA InitTree == Init => TreeInv
<1> SUFFICES ASSUME Init
             PROVE  TreeInv
  OBVIOUS
<1>1. /\ items = <<<<>>>> /\ Len(items) = 1 /\ items[1] = <<>>
      /\ DOMAIN items = {1} /\ DOMAIN items[1] = {}
  BY DEF Init
<1>2. /\ Len(building) = 1 /\ DOMAIN building = {1}
      /\ building[1] = [router |-> Root, parent |-> NoRouter, pattern |-> <<>>]
  BY DEF Init
<1>3. TypeOK
  <2>1. [router |-> Root, parent |-> NoRouter, pattern |-> <<>>] \in Frame
    BY DEF Frame, Root, NoRouter, Text
  <2>2. <<>> \in Seq(Item)
    OBVIOUS
  <2>3. QED
    BY <2>1, <2>2, <1>1, <1>2 DEF Init, TypeOK
<1>4. ItemsInv
  BY <1>1 DEF ItemsInv
<1>5. BuildingInv
  BY <1>1, <1>2 DEF BuildingInv, Root
<1>6. QED
  BY <1>3, <1>4, <1>5 DEF TreeInv

\* A handler is no router.
LEMMA RegisterTree ==
  ASSUME TreeInv, NEW k \in DOMAIN building, NEW pattern \in Patterns,
         Register(k, pattern)
  PROVE  TreeInv'
<1> DEFINE r == building[k].router
           x == [pattern |-> pattern, handler |-> Handler(r, Len(items[r]) + 1),
                 router |-> NoRouter]
<1>1. TypeOK /\ ItemsInv /\ BuildingInv /\ r \in DOMAIN items
  BY DEF TreeInv, BuildingInv
<1>2. r \in Nat /\ Len(items[r]) + 1 \in Nat
  BY <1>1 DEF TypeOK
<1>3. x \in Item
  BY <1>2 DEF Item, Text, HandlerName, NoRouter
<1>4. items' = [items EXCEPT ![r] = Append(@, x)] /\ building' = building
  BY <1>1 DEF Register, TypeOK
<1> HIDE DEF r, x
<1>5. /\ items' \in Seq(Seq(Item))
      /\ Len(items') = Len(items) /\ DOMAIN items' = DOMAIN items
      /\ \A q \in DOMAIN items : q # r => items'[q] = items[q]
      /\ Len(items[r]) \in Nat /\ DOMAIN items[r] = 1 .. Len(items[r])
      /\ DOMAIN items'[r] = 1 .. (Len(items[r]) + 1)
      /\ \A i \in DOMAIN items[r] : items'[r][i] = items[r][i]
      /\ items'[r][Len(items[r]) + 1] = x
  BY <1>1, <1>3, <1>4, OneMoreItem
<1>6. x.router = NoRouter
  BY DEF x
<1>7. \A q \in DOMAIN items' : \A i \in DOMAIN items'[q] :
         \/ i \in DOMAIN items[q] /\ items'[q][i] = items[q][i]
         \/ items'[q][i].router = NoRouter
  <2> SUFFICES ASSUME NEW q \in DOMAIN items', NEW i \in DOMAIN items'[q]
               PROVE  \/ i \in DOMAIN items[q] /\ items'[q][i] = items[q][i]
                      \/ items'[q][i].router = NoRouter
    OBVIOUS
  <2>1. CASE q # r
    BY <1>5, <2>1
  <2>2. CASE q = r /\ i = Len(items[r]) + 1
    BY <1>5, <1>6, <2>2
  <2>3. CASE q = r /\ i # Len(items[r]) + 1
    <3>1. i \in DOMAIN items[r]
      BY <1>5, <2>3
    <3>2. QED
      BY <1>5, <2>3, <3>1
  <2>4. QED
    BY <2>1, <2>2, <2>3
<1>8. TypeOK'
  BY <1>1, <1>4, <1>5 DEF TypeOK
<1>9. ItemsInv'
  <2>1. ASSUME NEW q \in DOMAIN items', NEW i \in DOMAIN items'[q], items'[q][i].router # NoRouter
        PROVE  q \in DOMAIN items /\ i \in DOMAIN items[q] /\ items'[q][i] = items[q][i]
    BY <1>5, <1>7, <2>1
  <2>2. ASSUME NEW q \in DOMAIN items', NEW i \in DOMAIN items'[q], items'[q][i].router # NoRouter
        PROVE  q < items'[q][i].router /\ items'[q][i].router \in DOMAIN items'
    BY <1>1, <1>5, <2>1, <2>2 DEF ItemsInv
  <2>3. ASSUME NEW p \in DOMAIN items', NEW q \in DOMAIN items',
               NEW i \in DOMAIN items'[p], NEW j \in DOMAIN items'[q],
               items'[p][i].router # NoRouter, items'[p][i].router = items'[q][j].router
        PROVE  p = q /\ i = j
    BY <1>1, <2>1, <2>3 DEF ItemsInv
  <2>4. QED
    BY <2>2, <2>3 DEF ItemsInv
<1>10. BuildingInv'
  <2>1. \A l \in DOMAIN building : building[l].router # NoRouter
    BY <1>1 DEF BuildingInv, TypeOK, NoRouter
  <2>2. QED
    BY <1>1, <1>4, <1>5, <1>7, <2>1 DEF BuildingInv
<1>11. QED
  BY <1>8, <1>9, <1>10 DEF TreeInv

\* The new router is the last one, and nobody routes to it.
LEMMA RouteBeginTree ==
  ASSUME TreeInv, NEW k \in DOMAIN building, NEW pattern \in Patterns,
         RouteBegin(k, pattern)
  PROVE  TreeInv'
<1> DEFINE x == [router |-> Len(items) + 1, parent |-> building[k].router,
                 pattern |-> pattern]
<1>1. /\ TypeOK /\ ItemsInv /\ BuildingInv
      /\ building[k].router \in DOMAIN items /\ building[k].router \in Nat
  BY DEF TreeInv, BuildingInv, TypeOK
<1>2. x \in Frame
  BY <1>1 DEF Frame, Text, TypeOK
<1>3. items' = Append(items, <<>>) /\ building' = Append(building, x)
  BY DEF RouteBegin
<1>4. /\ x.router = Len(items) + 1 /\ x.parent = building[k].router
  OBVIOUS
<1> HIDE DEF x
<1>5. /\ items' \in Seq(Seq(Item))
      /\ Len(items') = Len(items) + 1 /\ Len(items) \in Nat
      /\ DOMAIN items = 1 .. Len(items) /\ DOMAIN items' = 1 .. (Len(items) + 1)
      /\ \A q \in DOMAIN items : items'[q] = items[q]
      /\ items'[Len(items) + 1] = <<>>
  BY <1>1, <1>3, OneMoreRouter
<1>6. /\ building' \in Seq(Frame)
      /\ Len(building') = Len(building) + 1 /\ Len(building) \in Nat
      /\ DOMAIN building = 1 .. Len(building)
      /\ DOMAIN building' = 1 .. (Len(building) + 1)
      /\ \A l \in DOMAIN building : building'[l] = building[l]
      /\ building'[Len(building) + 1] = x
  BY <1>1, <1>2, <1>3, OneMoreCall
<1>7. TypeOK'
  BY <1>1, <1>5, <1>6 DEF TypeOK
<1>8. \A q \in DOMAIN items' : \A i \in DOMAIN items'[q] :
         q \in DOMAIN items /\ i \in DOMAIN items[q] /\ items'[q][i] = items[q][i]
  BY <1>5
<1>9. ItemsInv'
  BY <1>1, <1>5, <1>8 DEF ItemsInv
<1>10. \A q \in DOMAIN items : \A i \in DOMAIN items[q] :
          items[q][i].router # Len(items) + 1
  <2>1. \A q \in DOMAIN items : \A i \in DOMAIN items[q] :
           items[q][i].router = 0 \/ items[q][i].router \in DOMAIN items
    BY <1>1 DEF ItemsInv, NoRouter
  <2>2. 0 # Len(items) + 1 /\ Len(items) + 1 \notin DOMAIN items
    BY <1>5
  <2>3. QED
    BY <2>1, <2>2
<1>11. BuildingInv'
  <2> DEFINE n == Len(building)
  <2>a. /\ n \in Nat /\ n >= 1 /\ 1 \in DOMAIN building
        /\ \A l \in DOMAIN building' : l \in DOMAIN building \/ l = n + 1
        /\ \A l \in DOMAIN building : l \in 1 .. n
    BY <1>1, <1>6 DEF TypeOK
  <2>b. /\ \A l \in DOMAIN building : building'[l] = building[l]
        /\ building'[n + 1] = x
    BY <1>6
  <2>c. \A l \in DOMAIN building :
           building[l].router \in Nat /\ building[l].router < Len(items) + 1
    BY <1>1, <1>5, FramesAreNumbers DEF BuildingInv
  <2>d. /\ \A q \in DOMAIN items : q \in DOMAIN items'
        /\ Len(items) + 1 \in DOMAIN items'
    BY <1>5
  <2> HIDE DEF n
  <2>1. building'[1].router = Root /\ building'[1].parent = NoRouter
    BY <1>1, <2>a, <2>b DEF BuildingInv
  <2>2. \A l \in DOMAIN building' :
          /\ building'[l].router \in DOMAIN items'
          /\ l > 1 => /\ building'[l].parent \in DOMAIN items'
                      /\ building'[l].parent < building'[l].router
    <3> SUFFICES ASSUME NEW l \in DOMAIN building'
                 PROVE  /\ building'[l].router \in DOMAIN items'
                        /\ l > 1 => /\ building'[l].parent \in DOMAIN items'
                                    /\ building'[l].parent < building'[l].router
      OBVIOUS
    <3>1. CASE l \in DOMAIN building
      BY <1>1, <2>b, <2>d, <3>1 DEF BuildingInv
    <3>2. CASE l = n + 1
      BY <1>1, <1>4, <2>b, <2>c, <2>d, <3>2
    <3>3. QED
      BY <2>a, <3>1, <3>2
  <2>3. \A l, m \in DOMAIN building' :
          l < m => building'[l].router < building'[m].router
    <3> SUFFICES ASSUME NEW l \in DOMAIN building', NEW m \in DOMAIN building', l < m
                 PROVE  building'[l].router < building'[m].router
      OBVIOUS
    <3>1. l \in DOMAIN building
      <4>1. CASE m \in DOMAIN building
        BY <2>a, <4>1
      <4>2. CASE m = n + 1
        BY <2>a, <4>2
      <4>3. QED
        BY <2>a, <4>1, <4>2
    <3>2. CASE m \in DOMAIN building
      BY <1>1, <2>b, <3>1, <3>2 DEF BuildingInv
    <3>3. CASE m = n + 1
      BY <1>4, <2>b, <2>c, <3>1, <3>3
    <3>4. QED
      BY <2>a, <3>2, <3>3
  <2>4. \A l \in DOMAIN building', q \in DOMAIN items' : \A i \in DOMAIN items'[q] :
          items'[q][i].router # building'[l].router
    BY <1>1, <1>4, <1>6, <1>8, <1>10 DEF BuildingInv
  <2>5. QED
    BY <2>1, <2>2, <2>3, <2>4 DEF BuildingInv
<1>12. QED
  BY <1>7, <1>9, <1>11 DEF TreeInv

\* The router on top gets its item, and is in progress no more.
LEMMA RouteEndTree ==
  ASSUME TreeInv, RouteEnd
  PROVE  TreeInv'
<1> DEFINE n == Len(building)
           r == Top.parent
           x == [pattern |-> Top.pattern, handler |-> NoHandler, router |-> Top.router]
<1>1. TypeOK /\ ItemsInv /\ BuildingInv
  BY DEF TreeInv
<1>2. n \in Nat /\ n >= 1 /\ Top = building[n] /\ n \in DOMAIN building
      /\ DOMAIN building = 1 .. n /\ building[n] \in Frame
  BY <1>1 DEF TypeOK, Top
<1>3. n > 1 /\ n - 1 \in 1 .. Len(building)
  BY <1>1, <1>2 DEF RouteEnd, BuildingInv
<1>4. /\ r \in DOMAIN items /\ r < Top.router /\ Top.router \in DOMAIN items
      /\ Top.router \in Nat
  BY <1>1, <1>2, <1>3 DEF BuildingInv, Frame
<1>5. x \in Item
  BY <1>2 DEF Item, Frame, HandlerName
<1>6. /\ items' = [items EXCEPT ![r] = Append(@, x)]
      /\ building' = SubSeq(building, 1, n - 1)
  BY DEF RouteEnd
<1>7. x.router = Top.router
  OBVIOUS
<1> HIDE DEF n, r, x
<1>8. /\ items' \in Seq(Seq(Item))
      /\ Len(items') = Len(items) /\ DOMAIN items' = DOMAIN items
      /\ \A q \in DOMAIN items : q # r => items'[q] = items[q]
      /\ Len(items[r]) \in Nat /\ DOMAIN items[r] = 1 .. Len(items[r])
      /\ DOMAIN items'[r] = 1 .. (Len(items[r]) + 1)
      /\ \A i \in DOMAIN items[r] : items'[r][i] = items[r][i]
      /\ items'[r][Len(items[r]) + 1] = x
  BY <1>1, <1>4, <1>5, <1>6, OneMoreItem
<1>9. /\ building' \in Seq(Frame)
      /\ Len(building') = n - 1 /\ DOMAIN building' = 1 .. (n - 1)
      /\ \A k \in 1 .. (n - 1) : k \in DOMAIN building /\ building'[k] = building[k]
  BY <1>1, <1>3, <1>6, FewerCalls
<1>10. \A q \in DOMAIN items' : \A i \in DOMAIN items'[q] :
          \/ i \in DOMAIN items[q] /\ items'[q][i] = items[q][i]
          \/ q = r /\ i = Len(items[r]) + 1 /\ items'[q][i].router = Top.router
  <2> SUFFICES ASSUME NEW q \in DOMAIN items', NEW i \in DOMAIN items'[q]
               PROVE  \/ i \in DOMAIN items[q] /\ items'[q][i] = items[q][i]
                      \/ /\ q = r /\ i = Len(items[r]) + 1
                         /\ items'[q][i].router = Top.router
    OBVIOUS
  <2>1. CASE q # r
    BY <1>8, <2>1
  <2>2. CASE q = r /\ i = Len(items[r]) + 1
    BY <1>7, <1>8, <2>2
  <2>3. CASE q = r /\ i # Len(items[r]) + 1
    <3>1. i \in DOMAIN items[r]
      BY <1>8, <2>3
    <3>2. QED
      BY <1>8, <2>3, <3>1
  <2>4. QED
    BY <2>1, <2>2, <2>3
<1>11. \A q \in DOMAIN items : \A i \in DOMAIN items[q] : items[q][i].router # Top.router
  BY <1>1, <1>2 DEF BuildingInv
<1>12. TypeOK'
  BY <1>1, <1>2, <1>3, <1>8, <1>9 DEF TypeOK
<1>13. ItemsInv'
  <2>1. \A q \in DOMAIN items' : \A i \in DOMAIN items'[q] :
           items'[q][i].router # NoRouter
             => q < items'[q][i].router /\ items'[q][i].router \in DOMAIN items'
    BY <1>1, <1>4, <1>8, <1>10 DEF ItemsInv
  <2>2. \A p, q \in DOMAIN items' : \A i \in DOMAIN items'[p], j \in DOMAIN items'[q] :
           items'[p][i].router # NoRouter /\ items'[p][i].router = items'[q][j].router
             => p = q /\ i = j
    BY <1>1, <1>8, <1>10, <1>11 DEF ItemsInv
  <2>3. QED
    BY <2>1, <2>2 DEF ItemsInv
<1>14. BuildingInv'
  <2>1. \A k \in DOMAIN building' : building[k].router # Top.router
    <3>1. \A k \in DOMAIN building' : k < n /\ k \in DOMAIN building
      BY <1>2, <1>3, <1>9
    <3>2. \A k \in DOMAIN building' : building[k].router < Top.router
      BY <1>1, <1>2, <3>1 DEF BuildingInv
    <3>3. \A k \in DOMAIN building' : building[k].router \in Nat
      BY <1>1, <3>1, FramesAreNumbers
    <3>4. QED
      BY <1>4, <3>2, <3>3
  <2>2. building'[1].router = Root /\ building'[1].parent = NoRouter
    BY <1>1, <1>2, <1>3, <1>9 DEF BuildingInv
  <2>3. \A k \in DOMAIN building' :
          /\ building'[k].router \in DOMAIN items'
          /\ k > 1 => /\ building'[k].parent \in DOMAIN items'
                      /\ building'[k].parent < building'[k].router
    BY <1>1, <1>8, <1>9 DEF BuildingInv
  <2>4. \A k, l \in DOMAIN building' :
          k < l => building'[k].router < building'[l].router
    BY <1>1, <1>9 DEF BuildingInv
  <2>5. \A k \in DOMAIN building', q \in DOMAIN items' : \A i \in DOMAIN items'[q] :
          items'[q][i].router # building'[k].router
    BY <1>1, <1>8, <1>9, <1>10, <2>1 DEF BuildingInv
  <2>6. QED
    BY <2>2, <2>3, <2>4, <2>5 DEF BuildingInv
<1>15. QED
  BY <1>12, <1>13, <1>14 DEF TreeInv

\* What an exception leaves in progress was in progress before.
LEMMA RouteThrowsTree ==
  ASSUME TreeInv, NEW k \in DOMAIN building, RouteThrows(k)
  PROVE  TreeInv'
<1>1. TypeOK /\ ItemsInv /\ BuildingInv
  BY DEF TreeInv
<1>2. k \in 1 .. Len(building)
  BY <1>1 DEF TypeOK
<1>3. /\ building' \in Seq(Frame)
      /\ Len(building') = k /\ k \in Nat
      /\ DOMAIN building = 1 .. Len(building) /\ DOMAIN building' = 1 .. k
      /\ \A l \in 1 .. k : l \in DOMAIN building /\ building'[l] = building[l]
  BY <1>1, <1>2, FewerCalls DEF RouteThrows
<1>4. items' = items
  BY DEF RouteThrows
<1>5. TypeOK' /\ ItemsInv'
  BY <1>1, <1>2, <1>3, <1>4 DEF TypeOK, ItemsInv
<1>6. BuildingInv'
  BY <1>1, <1>2, <1>3, <1>4 DEF BuildingInv
<1>7. QED
  BY <1>5, <1>6 DEF TreeInv

LEMMA NextTree == TreeInv /\ [Next]_vars => TreeInv'
<1> SUFFICES ASSUME TreeInv, [Next]_vars
             PROVE  TreeInv'
  OBVIOUS
<1>1. CASE UNCHANGED vars
  BY <1>1 DEF vars, TreeInv, TypeOK, ItemsInv, BuildingInv
<1>2. CASE Next
  BY <1>2, RegisterTree, RouteBeginTree, RouteEndTree, RouteThrowsTree DEF Next
<1>3. QED
  BY <1>1, <1>2

LEMMA TreeHolds == Spec => []TreeInv
  BY InitTree, NextTree, PTL DEF Spec

-----------------------------------------------------------------------------
(* The tree *)

LEMMA TreeIsDeletedOnce == TreeInv => DeletedOnce
<1> SUFFICES ASSUME TreeInv, NEW r \in DOMAIN items
             PROVE  /\ \A a, b \in Parents(r) : a = b
                    /\ \A a \in Parents(r) : a[1] < r
                    /\ r = Root \/ InProgress(r) => Parents(r) = {}
  BY DEF DeletedOnce
<1>1. TypeOK /\ ItemsInv /\ BuildingInv
  BY DEF TreeInv
<1>2. r # NoRouter
  BY <1>1 DEF TypeOK, NoRouter
<1>3. \A a \in Parents(r) :
         /\ a = <<a[1], a[2]>> /\ a[1] \in DOMAIN items /\ a[2] \in DOMAIN items[a[1]]
         /\ items[a[1]][a[2]].router = r
  <2> SUFFICES ASSUME NEW a \in Parents(r)
               PROVE  /\ a = <<a[1], a[2]>> /\ a[1] \in DOMAIN items
                      /\ a[2] \in DOMAIN items[a[1]]
                      /\ items[a[1]][a[2]].router = r
    OBVIOUS
  <2>1. /\ a \in (DOMAIN items) \X (1 .. MaxItems)
        /\ a[2] <= Len(items[a[1]]) /\ items[a[1]][a[2]].router = r
    BY DEF Parents
  <2>2. a = <<a[1], a[2]>> /\ a[1] \in DOMAIN items /\ a[2] \in 1 .. MaxItems
    BY <2>1
  <2>3. items[a[1]] \in Seq(Item)
    BY <1>1, <2>2 DEF TypeOK
  <2>4. a[2] \in DOMAIN items[a[1]]
    BY <2>1, <2>2, <2>3, RouterAssumption
  <2>5. QED
    BY <2>1, <2>2, <2>4
<1>4. \A a, b \in Parents(r) : a = b
  BY <1>1, <1>2, <1>3 DEF ItemsInv
<1>5. \A a \in Parents(r) : a[1] < r
  BY <1>1, <1>2, <1>3 DEF ItemsInv
<1>6. InProgress(r) => Parents(r) = {}
  BY <1>1, <1>3 DEF BuildingInv, InProgress
<1>7. InProgress(Root)
  BY <1>1 DEF TypeOK, BuildingInv, InProgress
<1>8. QED
  BY <1>4, <1>5, <1>6, <1>7

\* Every router but the root is deleted by at most one destructor, that of a
\* router made before it: route() hands over what it made exactly once.
THEOREM RoutersAreDeletedOnce == Spec => []DeletedOnce
<1>1. TreeInv => DeletedOnce
  BY TreeIsDeletedOnce
<1>2. QED
  BY <1>1, TreeHolds, PTL

\* An item that stays where it is stays a parent.
LEMMA ParentsStay ==
  ASSUME TypeOK, NEW q,
         \A p \in DOMAIN items :
            /\ p \in DOMAIN items'
            /\ Len(items[p]) <= Len(items'[p]) /\ Len(items'[p]) \in Nat
            /\ \A i \in DOMAIN items[p] : items'[p][i] = items[p][i]
  PROVE  Parents(q) \subseteq Parents(q)'
<1> SUFFICES ASSUME NEW a \in Parents(q)
             PROVE  a \in Parents(q)'
  OBVIOUS
<1>1. /\ a \in (DOMAIN items) \X (1 .. MaxItems)
      /\ a[2] <= Len(items[a[1]]) /\ items[a[1]][a[2]].router = q
  BY DEF Parents
<1>2. a = <<a[1], a[2]>> /\ a[1] \in DOMAIN items /\ a[2] \in 1 .. MaxItems
  BY <1>1
<1>3. items[a[1]] \in Seq(Item)
  BY <1>2 DEF TypeOK
<1>4. a[2] \in Nat /\ a[2] >= 1
  BY <1>2, RouterAssumption
<1>5. Len(items[a[1]]) \in Nat /\ a[2] \in DOMAIN items[a[1]]
  BY <1>1, <1>3, <1>4
<1>6. a[2] <= Len(items'[a[1]]) /\ items'[a[1]][a[2]].router = q
  BY <1>1, <1>2, <1>4, <1>5
<1>7. a \in (DOMAIN items') \X (1 .. MaxItems)
  BY <1>2
<1>8. QED
  BY <1>6, <1>7 DEF Parents

\* A step that is no exception keeps every parent, and every router in
\* progress but the one it gives a parent.
LEMMA StepKeeps ==
  ASSUME TreeInv, [Next]_vars, ~\E k \in DOMAIN building : RouteThrows(k),
         NEW q \in DOMAIN items, ~Lost(q)
  PROVE  ~Lost(q)'
<1>1. TypeOK /\ ItemsInv /\ BuildingInv
  BY DEF TreeInv
<1>2. \A p \in DOMAIN items : items[p] \in Seq(Item) /\ Len(items[p]) \in Nat
  BY <1>1 DEF TypeOK
<1>3. ASSUME UNCHANGED vars
      PROVE  ~Lost(q)'
  BY <1>3 DEF vars, Lost, InProgress, Parents
<1>4. ASSUME NEW k \in DOMAIN building, NEW pattern \in Patterns, Register(k, pattern)
      PROVE  ~Lost(q)'
  <2> DEFINE r == building[k].router
             x == [pattern |-> pattern, handler |-> Handler(r, Len(items[r]) + 1),
                   router |-> NoRouter]
  <2>1. r \in DOMAIN items
    BY <1>1 DEF BuildingInv
  <2>2. r \in Nat /\ Len(items[r]) + 1 \in Nat
    BY <1>1, <1>2, <2>1, FramesAreNumbers
  <2>3. x \in Item
    BY <2>2 DEF Item, Text, HandlerName, NoRouter
  <2>4. items' = [items EXCEPT ![r] = Append(@, x)] /\ building' = building
    BY <1>4, <2>1, <1>1 DEF Register, TypeOK
  <2> HIDE DEF r, x
  <2>5. Parents(q) \subseteq Parents(q)'
    <3>1. /\ DOMAIN items' = DOMAIN items
          /\ \A p \in DOMAIN items : p # r => items'[p] = items[p]
          /\ Len(items'[r]) = Len(items[r]) + 1
          /\ \A i \in DOMAIN items[r] : items'[r][i] = items[r][i]
      BY <1>1, <2>1, <2>3, <2>4, OneMoreItem
    <3>2. \A p \in DOMAIN items :
             /\ p \in DOMAIN items'
             /\ Len(items[p]) <= Len(items'[p]) /\ Len(items'[p]) \in Nat
             /\ \A i \in DOMAIN items[p] : items'[p][i] = items[p][i]
      BY <1>2, <2>1, <3>1
    <3>3. QED
      BY <1>1, <3>2, ParentsStay
  <2>6. InProgress(q) => InProgress(q)'
    BY <2>4 DEF InProgress
  <2>7. QED
    BY <2>5, <2>6 DEF Lost
<1>5. ASSUME NEW k \in DOMAIN building, NEW pattern \in Patterns, RouteBegin(k, pattern)
      PROVE  ~Lost(q)'
  <2> DEFINE x == [router |-> Len(items) + 1, parent |-> building[k].router,
                   pattern |-> pattern]
  <2>1. items' = Append(items, <<>>) /\ building' = Append(building, x)
    BY <1>5 DEF RouteBegin
  <2>2. x \in Frame
    BY <1>1, FramesAreNumbers DEF Frame, Text, TypeOK
  <2> HIDE DEF x
  <2>3. Parents(q) \subseteq Parents(q)'
    <3>1. \A p \in DOMAIN items : p \in DOMAIN items' /\ items'[p] = items[p]
      BY <1>1, <2>1, OneMoreRouter
    <3>2. \A p \in DOMAIN items : Len(items[p]) <= Len(items[p])
      BY <1>2
    <3>3. QED
      BY <1>1, <1>2, <3>1, <3>2, ParentsStay
  <2>4. InProgress(q) => InProgress(q)'
    <3>1. \A l \in DOMAIN building : l \in DOMAIN building' /\ building'[l] = building[l]
      BY <1>1, <2>1, <2>2, OneMoreCall
    <3>2. QED
      BY <3>1 DEF InProgress
  <2>5. QED
    BY <2>3, <2>4 DEF Lost
<1>6. ASSUME RouteEnd
      PROVE  ~Lost(q)'
  <2> DEFINE n == Len(building)
             r == Top.parent
             x == [pattern |-> Top.pattern, handler |-> NoHandler, router |-> Top.router]
  <2>1. n \in Nat /\ n >= 1 /\ Top = building[n] /\ n \in DOMAIN building
        /\ DOMAIN building = 1 .. n /\ building[n] \in Frame
    BY <1>1 DEF TypeOK, Top
  <2>2. n > 1 /\ n - 1 \in 1 .. Len(building)
    BY <1>1, <1>6, <2>1 DEF RouteEnd, BuildingInv
  <2>3. r \in DOMAIN items
    BY <1>1, <2>1, <2>2 DEF BuildingInv
  <2>4. x \in Item
    BY <2>1 DEF Item, Frame, HandlerName
  <2>5. /\ items' = [items EXCEPT ![r] = Append(@, x)]
        /\ building' = SubSeq(building, 1, n - 1)
        /\ Len(items[r]) < MaxItems
    BY <1>6 DEF RouteEnd, HasRoom
  <2>6. x.router = Top.router
    OBVIOUS
  <2> HIDE DEF n, r, x
  <2>7. /\ DOMAIN items' = DOMAIN items
        /\ \A p \in DOMAIN items : p # r => items'[p] = items[p]
        /\ Len(items'[r]) = Len(items[r]) + 1
        /\ \A i \in DOMAIN items[r] : items'[r][i] = items[r][i]
        /\ items'[r][Len(items[r]) + 1] = x
    BY <1>1, <2>3, <2>4, <2>5, OneMoreItem
  <2>8. Parents(q) \subseteq Parents(q)'
    <3>1. \A p \in DOMAIN items :
             /\ p \in DOMAIN items'
             /\ Len(items[p]) <= Len(items'[p]) /\ Len(items'[p]) \in Nat
             /\ \A i \in DOMAIN items[p] : items'[p][i] = items[p][i]
      BY <1>2, <2>3, <2>7
    <3>2. QED
      BY <1>1, <3>1, ParentsStay
  <2>9. CASE q = Top.router
    <3> DEFINE a == <<r, Len(items[r]) + 1>>
    <3>1. Len(items[r]) \in Nat /\ Len(items[r]) + 1 \in 1 .. MaxItems
      BY <1>2, <2>3, <2>5, RouterAssumption
    <3>2. a \in (DOMAIN items') \X (1 .. MaxItems)
      BY <2>3, <2>7, <3>1
    <3>3. a[2] <= Len(items'[a[1]]) /\ items'[a[1]][a[2]].router = q
      BY <2>6, <2>7, <2>9, <3>1
    <3>4. a \in Parents(q)'
      BY <3>2, <3>3 DEF Parents
    <3>5. QED
      BY <3>4 DEF Lost
  <2>10. CASE q # Top.router
    <3>1. \A l \in 1 .. (n - 1) : building'[l] = building[l]
      BY <1>1, <2>2, <2>5, FewerCalls
    <3>2. DOMAIN building' = 1 .. (n - 1)
      BY <1>1, <2>2, <2>5, FewerCalls
    <3>3. \A l \in DOMAIN building : l # n => l \in 1 .. (n - 1)
      BY <2>1
    <3>4. InProgress(q) => InProgress(q)'
      BY <2>1, <2>10, <3>1, <3>2, <3>3 DEF InProgress
    <3>5. QED
      BY <2>8, <3>4 DEF Lost
  <2>11. QED
    BY <2>9, <2>10
<1>7. QED
  BY <1>3, <1>4, <1>5, <1>6 DEF Next

\* The only step that leaves a router behind, neither reachable nor deleted,
\* is an exception that passes through route().
THEOREM OnlyThrowsLoseRouters == Spec => OnlyThrowsLose
<1>1. TreeInv /\ [Next]_vars =>
        [\A r \in DOMAIN items :
           ~Lost(r) /\ Lost(r)' => \E k \in DOMAIN building : RouteThrows(k)]_vars
  BY StepKeeps
<1>2. QED
  BY <1>1, TreeHolds, PTL DEF Spec, OnlyThrowsLose

-----------------------------------------------------------------------------
(* Induction, and recursion, told by sets *)

LEMMA Least ==
  ASSUME NEW T \in SUBSET Nat, T # {}
  PROVE  \E x \in T : \A y \in T : x <= y
<1>1. IsWellFoundedOn(OpToRel(<, Nat), Nat)
  BY NatLessThanWellFounded
<1> DEFINE Smaller == {p \in Nat \X Nat : p[1] < p[2]}
<1>2. OpToRel(<, Nat) = Smaller
  BY DEF OpToRel
<1>3. IsWellFoundedOn(Smaller, Nat)
  BY <1>1, <1>2
<1>4. ASSUME NEW x \in Nat, NEW y \in Nat, y < x
      PROVE  <<y, x>> \in Smaller
  <2>1. <<y, x>> \in Nat \X Nat
    OBVIOUS
  <2>2. <<y, x>>[1] < <<y, x>>[2]
    BY <1>4
  <2>3. QED
    BY <2>1, <2>2
<1> HIDE DEF Smaller
<1>5. PICK x \in T : \A y \in T : ~(<<y, x>> \in Smaller)
  BY <1>3, WFMin
<1>6. ASSUME NEW y \in T
      PROVE  x <= y
  <2>1. ~(y < x)
    BY <1>4, <1>5, Zenon
  <2>2. QED
    BY <2>1
<1>7. QED
  BY <1>6

\* What is true of every number of a range when it is of one whose greater
\* ones it is true of: the induction that goes down.
LEMMA GoingDown ==
  ASSUME NEW m \in Nat, NEW G \in SUBSET (1 .. m),
         \A l \in 1 .. m : (\A k \in (l + 1) .. m : k \in G) => l \in G
  PROVE  G = 1 .. m
<1> DEFINE Bad == {n \in 0 .. (m - 1) : m - n \notin G}
<1>1. SUFFICES ASSUME G # 1 .. m PROVE FALSE
  OBVIOUS
<1>2. Bad \in SUBSET Nat /\ Bad # {}
  <2>1. PICK l \in 1 .. m : l \notin G
    BY <1>1
  <2>2. m - l \in 0 .. (m - 1) /\ m - (m - l) = l
    OBVIOUS
  <2>3. m - l \in Bad
    BY <2>1, <2>2
  <2>4. \A n \in 0 .. (m - 1) : n \in Nat
    OBVIOUS
  <2>5. QED
    BY <2>3, <2>4
<1>3. PICK n \in Bad : \A y \in Bad : n <= y
  BY <1>2, Least
<1>4. n \in 0 .. (m - 1) /\ m - n \in 1 .. m
  BY <1>3
<1>5. ASSUME NEW k \in ((m - n) + 1) .. m
      PROVE  k \in G
  <2>1. m - k \in 0 .. (m - 1) /\ m - k < n /\ m - (m - k) = k
    BY <1>4
  <2>2. m - k \notin Bad
    BY <1>3, <1>4, <2>1
  <2>3. QED
    BY <2>1, <2>2
<1>6. m - n \in G
  BY <1>4, <1>5
<1>7. QED
  BY <1>3, <1>6

\* The induction that goes up.
LEMMA GoingUp ==
  ASSUME NEW m \in Nat, NEW G \in SUBSET (0 .. m), 0 \in G,
         \A n \in 0 .. (m - 1) : n \in G => n + 1 \in G
  PROVE  m \in G
<1>1. SUFFICES ASSUME m \notin G PROVE FALSE
  OBVIOUS
<1> DEFINE Bad == {n \in 0 .. m : n \notin G}
<1>2. Bad \in SUBSET Nat /\ Bad # {}
  <2>1. m \in Bad
    BY <1>1
  <2>2. QED
    BY <2>1
<1>3. PICK n \in Bad : \A y \in Bad : n <= y
  BY <1>2, Least
<1>4. n \in 0 .. m /\ n # 0 /\ n \notin G
  BY <1>3
<1>5. n - 1 \in 0 .. (m - 1) /\ n - 1 \in 0 .. m /\ ~(n <= n - 1) /\ (n - 1) + 1 = n
  BY <1>4
<1>6. n - 1 \in G
  BY <1>3, <1>5
<1>7. QED
  BY <1>4, <1>5, <1>6

\* H says what the value of a function at a place is, from its values at the
\* places of a lower rank.
ByRank(D, V, m, rank, H) ==
    /\ V # {} /\ m \in Nat
    /\ rank \in [D -> 0 .. m]
    /\ H \in [D -> [[D -> V] -> V]]
    /\ \A x \in D : \A f, g \in [D -> V] :
          (\A y \in D : rank[y] < rank[x] => f[y] = g[y]) => H[x][f] = H[x][g]

\* Such a function exists.
LEMMA Recursion ==
  ASSUME NEW D, NEW V, NEW m, NEW rank, NEW H, ByRank(D, V, m, rank, H)
  PROVE  \E f \in [D -> V] : \A x \in D : f[x] = H[x][f]
<1>0. /\ V # {} /\ m \in Nat /\ rank \in [D -> 0 .. m] /\ H \in [D -> [[D -> V] -> V]]
      /\ \A x \in D : \A f, g \in [D -> V] :
            (\A y \in D : rank[y] < rank[x] => f[y] = g[y]) => H[x][f] = H[x][g]
  BY DEF ByRank
<1> DEFINE Good(f, n) == \A x \in D : rank[x] < n => f[x] = H[x][f]
           G == {n \in 0 .. (m + 1) : \E f \in [D -> V] : Good(f, n)}
<1>1. 0 \in G
  <2>0. PICK v \in V : TRUE
    BY <1>0
  <2>1. [x \in D |-> v] \in [D -> V]
    OBVIOUS
  <2>2. \A x \in D : ~(rank[x] < 0)
    <3>1. \A i \in 0 .. m : ~(i < 0)
      BY <1>0
    <3>2. QED
      BY <1>0, <3>1
  <2>3. 0 \in 0 .. (m + 1)
    BY <1>0
  <2>4. QED
    BY <2>1, <2>2, <2>3
<1>2. ASSUME NEW n \in 0 .. ((m + 1) - 1), n \in G
      PROVE  n + 1 \in G
  <2>1. PICK f \in [D -> V] : Good(f, n)
    BY <1>2
  <2> DEFINE g == [x \in D |-> IF rank[x] < n THEN f[x] ELSE H[x][f]]
  <2>2. g \in [D -> V]
    BY <1>0
  <2>3. ASSUME NEW x \in D, rank[x] < n + 1
        PROVE  g[x] = H[x][f] /\ H[x][f] = H[x][g]
    <3>1. \A y \in D : rank[y] < rank[x] => rank[y] < n
      <4>1. \A i, j \in 0 .. m : j < n + 1 /\ i < j => i < n
        BY <1>0
      <4>2. QED
        BY <1>0, <2>3, <4>1
    <3>2. \A y \in D : rank[y] < rank[x] => f[y] = g[y]
      BY <3>1
    <3>3. H[x][f] = H[x][g]
      BY <1>0, <2>2, <3>2
    <3>4. g[x] = H[x][f]
      BY <2>1
    <3>5. QED
      BY <3>3, <3>4
  <2> HIDE DEF g
  <2>4. Good(g, n + 1)
    BY <2>3
  <2>5. n + 1 \in 0 .. (m + 1)
    BY <1>0
  <2>6. QED
    BY <2>2, <2>4, <2>5
<1>3. m + 1 \in G
  <2>1. m + 1 \in Nat /\ G \in SUBSET (0 .. (m + 1))
    BY <1>0
  <2> HIDE DEF G
  <2>2. QED
    BY <1>1, <1>2, <2>1, GoingUp
<1>4. PICK f \in [D -> V] : Good(f, m + 1)
  BY <1>3
<1>5. \A x \in D : rank[x] < m + 1
  <2>1. \A i \in 0 .. m : i < m + 1
    BY <1>0
  <2>2. QED
    BY <1>0, <2>1
<1>6. QED
  BY <1>4, <1>5

\* What is true of a place when it is of those of a lower rank is true of all.
LEMMA RankInduction ==
  ASSUME NEW D, NEW m \in Nat, NEW rank \in [D -> 0 .. m], NEW G \in SUBSET D,
         \A x \in D : (\A y \in D : rank[y] < rank[x] => y \in G) => x \in G
  PROVE  G = D
<1> DEFINE Bad == {rank[x] : x \in D \ G}
<1>1. SUFFICES ASSUME D \ G # {} PROVE FALSE
  OBVIOUS
<1>2. Bad \in SUBSET Nat /\ Bad # {} /\ \A y \in D : rank[y] \in Nat
  <2>1. \A i \in 0 .. m : i \in Nat
    OBVIOUS
  <2>2. QED
    BY <1>1, <2>1
<1>3. PICK n \in Bad : \A k \in Bad : n <= k
  BY <1>2, Least
<1>4. PICK x \in D \ G : rank[x] = n
  BY <1>3
<1>5. ASSUME NEW y \in D, rank[y] < rank[x], y \notin G
      PROVE  FALSE
  <2>1. rank[y] \in Bad
    BY <1>5
  <2>2. n <= rank[y]
    BY <1>3, <2>1
  <2>3. rank[y] \in Nat /\ rank[x] \in Nat
    BY <1>2
  <2>4. QED
    BY <1>4, <1>5, <2>2, <2>3
<1>6. QED
  BY <1>4, <1>5

-----------------------------------------------------------------------------
(* Splitting a text *)

\* Where a delimiter is found.
LEMMA FindIs ==
  ASSUME NEW text, NEW delim, Len(text) \in Nat, Len(delim) \in Nat \ {0}, NEW from \in Nat \ {0}
  PROVE  Find(text, delim, from) = 0
           \/ Find(text, delim, from) \in from .. (Len(text) - Len(delim) + 1)
<1> DEFINE at == {i \in from .. (Len(text) - Len(delim) + 1) :
                    SubSeq(text, i, i + Len(delim) - 1) = delim}
<1>1. at \in SUBSET Nat
  OBVIOUS
<1>2. at # {} => (CHOOSE i \in at : \A j \in at : i <= j) \in at
  BY <1>1, Least
<1>3. Find(text, delim, from) = IF at = {} THEN 0 ELSE CHOOSE i \in at : \A j \in at : i <= j
  BY DEF Find
<1>4. at \in SUBSET (from .. (Len(text) - Len(delim) + 1))
  OBVIOUS
<1> HIDE DEF at
<1>5. QED
  BY <1>2, <1>3, <1>4

\* The pieces of a text are texts.
LEMMA SplitIs ==
  ASSUME NEW T, NEW text \in Seq(T), NEW delim, Len(delim) \in Nat \ {0}
  PROVE  Split(text, delim) \in Seq(Seq(T))
<1> DEFINE L == Len(text)
           D == 1 .. (L + 1)
           V == Seq(Seq(T))
           e(f, l) ==
             LET r == Find(text, delim, l)
             IN  IF l > Len(text) THEN <<>>
                 ELSE IF r = 0 THEN <<SubSeq(text, l, Len(text))>>
                 ELSE (IF r > l THEN <<SubSeq(text, l, r - 1)>> ELSE <<>>)
                         \o f[r + Len(delim)]
           P == CHOOSE f : f = [l \in 1 .. (Len(text) + 1) |-> e(f, l)]
<1>1. L \in Nat /\ \A l \in D : l \in Nat \ {0}
  OBVIOUS
<1>2. \A l \in D : \/ Find(text, delim, l) = 0
                   \/ /\ Find(text, delim, l) \in l .. L
                      /\ Find(text, delim, l) + Len(delim) \in D
                      /\ l < Find(text, delim, l) + Len(delim)
  <2>1. ASSUME NEW l \in D, Find(text, delim, l) # 0
        PROVE  /\ Find(text, delim, l) \in l .. L
               /\ Find(text, delim, l) + Len(delim) \in D
               /\ l < Find(text, delim, l) + Len(delim)
    <3> DEFINE r == Find(text, delim, l)
               d == Len(delim)
    <3>1. r \in l .. (L - d + 1)
      BY <1>1, <2>1, FindIs
    <3>2. d \in Nat \ {0} /\ l \in D
      OBVIOUS
    <3> HIDE DEF r, d, L
    <3>3. r \in l .. L /\ r + d \in D /\ l < r + d
      BY <1>1, <3>1, <3>2
    <3>4. QED
      BY <3>3 DEF r, d
  <2>2. QED
    BY <2>1
<1>3. \A l \in D : \A k \in l .. L : SubSeq(text, l, k) \in Seq(T) /\ SubSeq(text, l, k - 1) \in Seq(T)
  <2>1. ASSUME NEW l \in D, NEW k \in l .. L
        PROVE  SubSeq(text, l, k) \in Seq(T) /\ SubSeq(text, l, k - 1) \in Seq(T)
    <3>1. l \in 1 .. (L + 1) /\ k \in (l - 1) .. L /\ k - 1 \in (l - 1) .. L
      OBVIOUS
    <3>2. QED
      BY <3>1, SubSeqProperties
  <2>2. QED
    BY <2>1
<1>4. \A f : \A l \in D : (\A k \in D : k > l => f[k] \in V) => e(f, l) \in V
  <2>1. ASSUME NEW f, NEW l \in D, \A k \in D : k > l => f[k] \in V
        PROVE  e(f, l) \in V
    <3> DEFINE r == Find(text, delim, l)
    <3>1. CASE l > Len(text)
      BY <3>1
    <3>2. CASE ~(l > Len(text)) /\ r = 0
      <4>1. L \in l .. L
        BY <3>2
      <4>2. SubSeq(text, l, L) \in Seq(T)
        BY <1>3, <4>1
      <4>3. e(f, l) = <<SubSeq(text, l, L)>>
        BY <3>2
      <4> HIDE DEF e
      <4>4. QED
        BY <4>2, <4>3
    <3>3. CASE ~(l > Len(text)) /\ r # 0
      <4>1. r \in l .. L /\ r + Len(delim) \in D /\ r + Len(delim) > l
        BY <1>2, <3>3
      <4>2. SubSeq(text, l, r - 1) \in Seq(T)
        BY <1>3, <4>1
      <4>3. f[r + Len(delim)] \in V
        BY <2>1, <4>1
      <4>4. e(f, l) = (IF r > l THEN <<SubSeq(text, l, r - 1)>> ELSE <<>>) \o f[r + Len(delim)]
        BY <3>3
      <4> HIDE DEF e, r
      <4>5. (IF r > l THEN <<SubSeq(text, l, r - 1)>> ELSE <<>>) \in Seq(Seq(T))
        BY <4>2
      <4>6. QED
        BY <4>3, <4>4, <4>5
    <3>4. QED
      BY <3>1, <3>2, <3>3
  <2>2. QED
    BY <2>1
<1>5. \A f, g : \A l \in D : (\A k \in D : k > l => f[k] = g[k]) => e(f, l) = e(g, l)
  <2>1. ASSUME NEW f, NEW g, NEW l \in D, \A k \in D : k > l => f[k] = g[k]
        PROVE  e(f, l) = e(g, l)
    <3>1. CASE l > Len(text)
      BY <3>1
    <3>2. CASE Find(text, delim, l) = 0
      BY <3>2
    <3>3. CASE Find(text, delim, l) # 0
      <4>1. f[Find(text, delim, l) + Len(delim)] = g[Find(text, delim, l) + Len(delim)]
        BY <1>2, <2>1, <3>3
      <4>2. QED
        BY <4>1
    <3>4. QED
      BY <3>1, <3>2, <3>3
  <2>2. QED
    BY <2>1
<1> HIDE DEF e
<1>6. \E f : f = [l \in 1 .. (Len(text) + 1) |-> e(f, l)]
  <2> DEFINE m == L + 1
             rank == [l \in D |-> (L + 1) - l]
             H == [l \in D |-> [f \in [D -> V] |-> e(f, l)]]
  <2>1. <<>> \in V /\ m \in Nat
    OBVIOUS
  <2>2. rank \in [D -> 0 .. m]
    OBVIOUS
  <2>3. \A f \in [D -> V], l \in D : e(f, l) \in V
    BY <1>4
  <2>4. H \in [D -> [[D -> V] -> V]]
    BY <2>3
  <2>5. \A x \in D : \A f, g \in [D -> V] :
           (\A y \in D : rank[y] < rank[x] => f[y] = g[y]) => H[x][f] = H[x][g]
    <3>1. ASSUME NEW x \in D, NEW f \in [D -> V], NEW g \in [D -> V],
                 \A y \in D : rank[y] < rank[x] => f[y] = g[y]
          PROVE  H[x][f] = H[x][g]
      <4>1. \A y \in D : y > x => rank[y] < rank[x]
        OBVIOUS
      <4>2. e(f, x) = e(g, x)
        BY <1>5, <3>1, <4>1
      <4>3. QED
        BY <4>2
    <3>2. QED
      BY <3>1
  <2>51. ByRank(D, V, m, rank, H)
    <3> HIDE DEF m, rank, H, V, D
    <3>1. QED
      BY <2>1, <2>2, <2>4, <2>5 DEF ByRank
  <2>6. \A x \in D, f \in [D -> V] : H[x][f] = e(f, x)
    OBVIOUS
  <2> HIDE DEF m, rank, H, V, D
  <2>7. PICK f \in [D -> V] : \A x \in D : f[x] = H[x][f]
    BY <2>51, Recursion
  <2>8. f = [l \in D |-> e(f, l)]
    BY <2>6, <2>7
  <2>9. QED
    BY <2>8 DEF D
<1>7. P = [l \in D |-> e(P, l)]
  BY <1>6
<1> HIDE DEF P
<1>8. 1 \in D /\ L + 1 \in Nat
  OBVIOUS
<1>9. {l \in D : P[l] \in V} = D
  <2> DEFINE G == {l \in D : P[l] \in V}
  <2>1. ASSUME NEW l \in D, \A k \in (l + 1) .. (L + 1) : k \in G
        PROVE  l \in G
    <3>1. \A k \in D : k > l => k \in (l + 1) .. (L + 1)
      OBVIOUS
    <3>2. \A k \in D : k > l => P[k] \in V
      BY <2>1, <3>1
    <3>3. e(P, l) \in V
      BY <1>4, <3>2
    <3>4. P[l] = e(P, l)
      BY <1>7
    <3>5. QED
      BY <3>3, <3>4
  <2>2. G \in SUBSET (1 .. (L + 1))
    OBVIOUS
  <2> HIDE DEF G
  <2>3. G = 1 .. (L + 1)
    BY <1>8, <2>1, <2>2, GoingDown
  <2>4. QED
    BY <2>3 DEF G
<1>10. P[1] \in V
  BY <1>8, <1>9
<1>11. Split(text, delim) = P[1]
  BY DEF Split, P, e
<1>12. QED
  BY <1>10, <1>11

-----------------------------------------------------------------------------
(* What a pattern matches *)

LEMMA PrefixIs ==
  ASSUME NEW S, NEW s \in Seq(S), NEW t \in Seq(S)
  PROVE  IsPrefixOf(s, t) <=> Len(s) <= Len(t) /\ \A i \in 1 .. Len(s) : s[i] = t[i]
<1> DEFINE sub == SubSeq(t, 1, Len(s))
<1>1. ASSUME Len(s) <= Len(t)
      PROVE  sub \in Seq(S) /\ Len(sub) = Len(s) /\ \A i \in 1 .. Len(s) : sub[i] = t[i]
  <2>1. Len(s) \in Nat /\ Len(s) \in Int /\ 1 \in Int
    OBVIOUS
  <2>2. \A i \in 1 .. Len(s) : t[i] \in S
    BY <1>1
  <2>3. /\ sub \in Seq(S)
        /\ Len(sub) = IF 1 <= Len(s) THEN Len(s) - 1 + 1 ELSE 0
        /\ \A i \in 1 .. (Len(s) - 1 + 1) : sub[i] = t[1 + i - 1]
    BY <2>1, <2>2, SubSeqProperties
  <2> HIDE DEF sub
  <2>4. Len(sub) = Len(s)
    BY <2>1, <2>3
  <2>5. \A i \in 1 .. Len(s) : i \in 1 .. (Len(s) - 1 + 1) /\ 1 + i - 1 = i
    BY <2>1
  <2>6. QED
    BY <2>3, <2>4, <2>5
<1> HIDE DEF sub
<1>2. ASSUME Len(s) <= Len(t)
      PROVE  s = sub <=> \A i \in 1 .. Len(s) : s[i] = t[i]
  <2>1. sub \in Seq(S) /\ Len(sub) = Len(s) /\ \A i \in 1 .. Len(s) : sub[i] = t[i]
    BY <1>1, <1>2
  <2>2. (\A i \in 1 .. Len(s) : s[i] = sub[i]) => s = sub
    BY <2>1, SeqEqual
  <2>3. QED
    BY <2>1, <2>2
<1>3. QED
  BY <1>2 DEF IsPrefixOf, sub

LEMMA FixedIs ==
  ASSUME NEW S, NEW p \in Seq(S)
  PROVE  /\ Fixed(p) \in Seq(S)
         /\ Len(Fixed(p)) \in 0 .. Len(p)
         /\ \A i \in 1 .. Len(Fixed(p)) : Fixed(p)[i] = p[i] /\ p[i] # Wildcard
         /\ Len(Fixed(p)) = Len(p) \/ p[Len(Fixed(p)) + 1] = Wildcard
<1> DEFINE wild == {i \in DOMAIN p : p[i] = Wildcard}
           least == CHOOSE i \in wild : \A j \in wild : i <= j
<1>0. Len(p) \in Nat /\ DOMAIN p = 1 .. Len(p)
  OBVIOUS
<1>1. CASE wild = {}
  <2>1. Fixed(p) = p
    BY <1>1 DEF Fixed
  <2>2. QED
    BY <1>0, <1>1, <2>1
<1>2. CASE wild # {}
  <2>1. wild \in SUBSET Nat
    BY <1>0
  <2>2. least \in wild /\ \A j \in wild : least <= j
    BY <1>2, <2>1, Least
  <2>3. Fixed(p) = SubSeq(p, 1, least - 1)
    BY <1>2 DEF Fixed
  <2> HIDE DEF least
  <2>4. least \in 1 .. Len(p) /\ p[least] = Wildcard
    BY <1>0, <2>2
  <2>5. 1 \in Int /\ least - 1 \in Int /\ \A i \in 1 .. (least - 1) : p[i] \in S
    BY <2>4
  <2>6. /\ Fixed(p) \in Seq(S)
        /\ Len(Fixed(p)) = IF 1 <= least - 1 THEN (least - 1) - 1 + 1 ELSE 0
        /\ \A i \in 1 .. ((least - 1) - 1 + 1) : Fixed(p)[i] = p[1 + i - 1]
    BY <2>3, <2>5, SubSeqProperties
  <2>7. Len(Fixed(p)) = least - 1
    BY <2>4, <2>6
  <2>8. \A i \in 1 .. (least - 1) : i \in 1 .. ((least - 1) - 1 + 1) /\ 1 + i - 1 = i
    BY <2>4
  <2>9. \A i \in 1 .. (least - 1) : Fixed(p)[i] = p[i]
    BY <2>6, <2>8
  <2>10. \A i \in 1 .. (least - 1) : p[i] # Wildcard
    <3>1. ASSUME NEW i \in 1 .. (least - 1), p[i] = Wildcard
          PROVE  FALSE
      <4>1. i \in DOMAIN p /\ ~(least <= i)
        BY <1>0, <2>4
      <4>2. i \in wild
        BY <3>1, <4>1
      <4>3. QED
        BY <2>2, <4>1, <4>2
    <3>2. QED
      BY <3>1
  <2>11. least - 1 \in 0 .. Len(p) /\ (least - 1) + 1 = least
    BY <1>0, <2>4
  <2>12. QED
    BY <2>4, <2>6, <2>7, <2>9, <2>10, <2>11
<1>3. QED
  BY <1>1, <1>2

\* Where the loop over the segments ends.
LEMMA LoopEnds ==
  ASSUME NEW S, NEW p \in Seq(S), NEW u \in Seq(S)
  PROVE  \E k \in 1 .. (Len(p) + 1) :
            /\ k \in DOMAIN p => Ends(p, u, k)
            /\ \A j \in 1 .. (k - 1) : ~Ends(p, u, j)
<1> DEFINE C == {k \in 1 .. (Len(p) + 1) : k \in DOMAIN p => Ends(p, u, k)}
<1>1. C \in SUBSET Nat /\ C # {} /\ DOMAIN p = 1 .. Len(p) /\ Len(p) \in Nat
  <2>1. Len(p) + 1 \in 1 .. (Len(p) + 1) /\ Len(p) + 1 \notin 1 .. Len(p) /\ DOMAIN p = 1 .. Len(p)
    OBVIOUS
  <2>2. Len(p) + 1 \in C
    BY <2>1
  <2>3. QED
    BY <2>1, <2>2
<1>2. PICK k \in C : \A y \in C : k <= y
  BY <1>1, Least
<1>3. ASSUME NEW j \in 1 .. (k - 1)
      PROVE  ~Ends(p, u, j)
  <2>1. j \in 1 .. (Len(p) + 1) /\ ~(k <= j)
    BY <1>1
  <2>2. j \notin C
    BY <1>2, <2>1
  <2>3. QED
    BY <2>1, <2>2
<1>4. QED
  BY <1>3

\* i is where the loop ends, n how many segments are fixed, l and w the
\* lengths of the pattern and of the url.
LEMMA LoopPlaces ==
  ASSUME NEW l \in Nat, NEW n \in 0 .. l, NEW i \in 1 .. (l + 1)
  PROVE  /\ n < i - 1 => n + 1 \in 1 .. (i - 1) /\ n # l
         /\ n = i - 1 => /\ n + 1 = i
                         /\ i > l <=> n = l
                         /\ ~(i > l) <=> i <= l
                         /\ n = 0 \/ n \in 1 .. (i - 1)
         /\ n < i - 1 \/ n = i - 1
              \/ (i <= n /\ i <= l /\ i \in 1 .. n /\ ~(i > l))
  OBVIOUS

LEMMA UrlPlaces ==
  ASSUME NEW w \in Nat, NEW n \in Nat, NEW i \in 1 .. n
  PROVE  /\ i > w => /\ ~(n <= w) /\ ~(i <= w) /\ w <= n
                     /\ \A k \in 1 .. w : k \in 1 .. (i - 1) /\ k \in 1 .. n
         /\ ~(i > w) => i <= w /\ i \in 1 .. w
  OBVIOUS

\* url_matches_pattern, told by prefixes.
LEMMA MatchesPrefixes ==
  ASSUME NEW S, NEW p \in Seq(S), NEW u \in Seq(S)
  PROVE  SegmentsMatch(p, u) =
            IF IsPrefixOf(Fixed(p), u) THEN "yes"
            ELSE IF IsPrefixOf(u, Fixed(p)) THEN "undefined"
            ELSE "no"
<1> DEFINE C(k) == /\ k \in DOMAIN p => Ends(p, u, k)
                   /\ \A j \in 1 .. (k - 1) : ~Ends(p, u, j)
           i == CHOOSE k \in 1 .. (Len(p) + 1) : C(k)
           f == Fixed(p)
           n == Len(f)
<1>1. i \in 1 .. (Len(p) + 1) /\ C(i)
  BY LoopEnds
<1>2. SegmentsMatch(p, u) =
        CASE i > Len(p)               -> "yes"
          [] i <= Len(p) /\ p[i] = Wildcard -> "yes"
          [] i <= Len(p) /\ p[i] # Wildcard /\ i > Len(u)  -> "undefined"
          [] i <= Len(p) /\ p[i] # Wildcard /\ i <= Len(u) -> "no"
  BY DEF SegmentsMatch
<1>3. /\ f \in Seq(S) /\ n \in 0 .. Len(p)
      /\ \A k \in 1 .. n : f[k] = p[k] /\ p[k] # Wildcard
      /\ n = Len(p) \/ p[n + 1] = Wildcard
  BY FixedIs
<1>4. /\ IsPrefixOf(f, u) <=> n <= Len(u) /\ \A k \in 1 .. n : f[k] = u[k]
      /\ IsPrefixOf(u, f) <=> Len(u) <= n /\ \A k \in 1 .. Len(u) : u[k] = f[k]
  BY <1>3, PrefixIs
<1>5. Len(p) \in Nat /\ Len(u) \in Nat /\ DOMAIN p = 1 .. Len(p)
  OBVIOUS
<1>6. /\ i <= Len(p) => p[i] = Wildcard \/ i > Len(u) \/ p[i] # u[i]
      /\ \A j \in 1 .. (i - 1) : p[j] # Wildcard /\ j <= Len(u) /\ p[j] = u[j]
  <2>1. \A j \in 1 .. (i - 1) : j \in Nat /\ Len(u) \in Nat /\ (~(j > Len(u)) => j <= Len(u))
    BY <1>1, <1>5
  <2>2. i <= Len(p) => i \in DOMAIN p
    BY <1>1, <1>5
  <2>3. QED
    BY <1>1, <2>1, <2>2 DEF Ends
<1> HIDE DEF i, f, n
<1>7. /\ n < i - 1 => n + 1 \in 1 .. (i - 1) /\ n # Len(p)
      /\ n = i - 1 => /\ n + 1 = i
                      /\ i > Len(p) <=> n = Len(p)
                      /\ ~(i > Len(p)) <=> i <= Len(p)
                      /\ n = 0 \/ n \in 1 .. (i - 1)
      /\ n < i - 1 \/ n = i - 1
           \/ (i <= n /\ i <= Len(p) /\ i \in 1 .. n /\ ~(i > Len(p)))
  <2>1. n \in 0 .. Len(p) /\ i \in 1 .. (Len(p) + 1) /\ Len(p) \in Nat
    BY <1>1, <1>3, <1>5
  <2>2. QED
    BY <2>1, LoopPlaces
<1>8. ~(n < i - 1)
  <2>1. ASSUME n < i - 1
        PROVE  FALSE
    <3>1. n + 1 \in 1 .. (i - 1) /\ n # Len(p)
      BY <1>7, <2>1
    <3>2. p[n + 1] # Wildcard
      BY <1>6, <3>1
    <3>3. QED
      BY <1>3, <3>1, <3>2
  <2>2. QED
    BY <2>1
<1>9. CASE n = i - 1
  <2>1. n <= Len(u)
    <3>1. CASE n = 0
      BY <1>5, <3>1
    <3>2. CASE n \in 1 .. (i - 1)
      BY <1>6, <3>2
    <3>3. QED
      BY <1>7, <1>9, <3>1, <3>2
  <2>2. \A k \in 1 .. n : f[k] = u[k]
    BY <1>3, <1>6, <1>9
  <2>3. IsPrefixOf(f, u)
    BY <1>4, <2>1, <2>2
  <2>4. i > Len(p) \/ (i <= Len(p) /\ p[i] = Wildcard)
    <3>1. n + 1 = i /\ (i > Len(p) <=> n = Len(p)) /\ (~(i > Len(p)) <=> i <= Len(p))
      BY <1>7, <1>9
    <3>2. n = Len(p) \/ p[i] = Wildcard
      BY <1>3, <3>1
    <3>3. QED
      BY <3>1, <3>2, Zenon
  <2>5. SegmentsMatch(p, u) = "yes"
    <3>1. ~(i > Len(p)) <=> i <= Len(p)
      BY <1>7, <1>9
    <3>2. CASE i > Len(p)
      <4>1. ~(i <= Len(p))
        BY <3>1, <3>2, Zenon
      <4>2. QED
        BY <1>2, <3>2, <4>1
    <3>3. CASE i <= Len(p) /\ p[i] = Wildcard
      <4>1. ~(i > Len(p))
        BY <3>1, <3>3, Zenon
      <4>2. QED
        BY <1>2, <3>3, <4>1
    <3>4. QED
      BY <2>4, <3>2, <3>3
  <2>6. QED
    BY <2>3, <2>5 DEF f
<1>10. CASE n # i - 1
  <2>1. i <= n /\ i <= Len(p) /\ i \in 1 .. n /\ ~(i > Len(p))
    BY <1>7, <1>8, <1>10, Zenon
  <2>2. f[i] = p[i] /\ p[i] # Wildcard
    BY <1>3, <2>1
  <2>3. /\ i > Len(u) => /\ ~(n <= Len(u)) /\ ~(i <= Len(u)) /\ Len(u) <= n
                          /\ \A k \in 1 .. Len(u) : k \in 1 .. (i - 1) /\ k \in 1 .. n
        /\ ~(i > Len(u)) => i <= Len(u) /\ i \in 1 .. Len(u)
    <3>1. n \in Nat
      BY <1>3, <1>5
    <3>2. QED
      BY <1>5, <2>1, <3>1, UrlPlaces
  <2>4. CASE i > Len(u)
    <3>1. /\ ~(n <= Len(u)) /\ ~(i <= Len(u)) /\ Len(u) <= n
          /\ \A k \in 1 .. Len(u) : k \in 1 .. (i - 1) /\ k \in 1 .. n
      BY <2>3, <2>4, Zenon
    <3>2. \A k \in 1 .. Len(u) : u[k] = f[k]
      <4>1. ASSUME NEW k \in 1 .. Len(u)
            PROVE  u[k] = f[k]
        <5>1. k \in 1 .. (i - 1) /\ k \in 1 .. n
          BY <3>1
        <5>2. p[k] = u[k]
          BY <1>6, <5>1, Zenon
        <5>3. f[k] = p[k]
          BY <1>3, <5>1, Zenon
        <5>4. QED
          BY <5>2, <5>3
      <4>2. QED
        BY <4>1
    <3>3. ~IsPrefixOf(f, u) /\ IsPrefixOf(u, f)
      BY <1>4, <3>1, <3>2, Zenon
    <3>4. SegmentsMatch(p, u) = "undefined"
      BY <1>2, <2>1, <2>2, <2>4, <3>1
    <3>5. QED
      BY <3>3, <3>4 DEF f
  <2>5. CASE ~(i > Len(u))
    <3>1. i <= Len(u) /\ i \in 1 .. Len(u)
      BY <2>3, <2>5, Zenon
    <3>2. f[i] # u[i]
      BY <1>6, <2>1, <2>2, <2>5, Zenon
    <3>3. ~IsPrefixOf(f, u) /\ ~IsPrefixOf(u, f)
      BY <1>4, <2>1, <3>1, <3>2, Zenon
    <3>4. SegmentsMatch(p, u) = "no"
      BY <1>2, <2>1, <2>2, <2>5, <3>1
    <3>5. QED
      BY <3>3, <3>4 DEF f
  <2>6. QED
    BY <2>4, <2>5
<1>11. QED
  BY <1>9, <1>10

-----------------------------------------------------------------------------
(* What the items hold *)

\* GivenInv says of the items what they were given: a pattern of the caller,
\* and, when it is no router, the handler named by their place.
GivenInv ==
    /\ \A q \in DOMAIN items :
          /\ Len(items[q]) <= MaxItems
          /\ \A i \in DOMAIN items[q] :
                /\ items[q][i].pattern \in Patterns
                /\ items[q][i].router = NoRouter => items[q][i].handler = Handler(q, i)
    /\ \A k \in DOMAIN building : k > 1 => building[k].pattern \in Patterns

LEMMA InitGiven == Init => GivenInv
<1> SUFFICES ASSUME Init
             PROVE  GivenInv
  OBVIOUS
<1>1. /\ DOMAIN items = {1} /\ items[1] = <<>> /\ Len(items[1]) = 0
      /\ DOMAIN items[1] = {} /\ DOMAIN building = {1}
  BY DEF Init
<1>2. 0 <= MaxItems /\ ~(1 > 1)
  BY RouterAssumption
<1>3. QED
  BY <1>1, <1>2 DEF GivenInv

\* One more item, of the router that has room for it.
LEMMA OneMoreGiven ==
  ASSUME TypeOK, GivenInv, NEW r \in DOMAIN items, HasRoom(r), NEW x \in Item,
         items' = [items EXCEPT ![r] = Append(@, x)],
         x.pattern \in Patterns,
         x.router = NoRouter => x.handler = Handler(r, Len(items[r]) + 1)
  PROVE  \A q \in DOMAIN items' :
            /\ Len(items'[q]) <= MaxItems
            /\ \A i \in DOMAIN items'[q] :
                  /\ items'[q][i].pattern \in Patterns
                  /\ items'[q][i].router = NoRouter => items'[q][i].handler = Handler(q, i)
<1>1. /\ DOMAIN items' = DOMAIN items
      /\ \A q \in DOMAIN items : q # r => items'[q] = items[q]
      /\ Len(items[r]) \in Nat /\ DOMAIN items[r] = 1 .. Len(items[r])
      /\ Len(items'[r]) = Len(items[r]) + 1
      /\ DOMAIN items'[r] = 1 .. (Len(items[r]) + 1)
      /\ \A i \in DOMAIN items[r] : items'[r][i] = items[r][i]
      /\ items'[r][Len(items[r]) + 1] = x
  BY OneMoreItem
<1>2. Len(items'[r]) <= MaxItems
  BY <1>1, RouterAssumption DEF HasRoom
<1>3. \A i \in DOMAIN items'[r] : i \in DOMAIN items[r] \/ i = Len(items[r]) + 1
  BY <1>1
<1>4. ASSUME NEW i \in DOMAIN items'[r]
      PROVE  /\ items'[r][i].pattern \in Patterns
             /\ items'[r][i].router = NoRouter => items'[r][i].handler = Handler(r, i)
  <2>1. CASE i \in DOMAIN items[r]
    BY <1>1, <2>1 DEF GivenInv
  <2>2. CASE i = Len(items[r]) + 1
    BY <1>1, <2>2
  <2>3. QED
    BY <1>3, <2>1, <2>2
<1>5. ASSUME NEW q \in DOMAIN items', q # r
      PROVE  /\ Len(items'[q]) <= MaxItems
             /\ \A i \in DOMAIN items'[q] :
                   /\ items'[q][i].pattern \in Patterns
                   /\ items'[q][i].router = NoRouter
                         => items'[q][i].handler = Handler(q, i)
  BY <1>1, <1>5 DEF GivenInv
<1>6. QED
  BY <1>2, <1>4, <1>5

LEMMA NextGiven == TreeInv /\ GivenInv /\ [Next]_vars => GivenInv'
<1> SUFFICES ASSUME TreeInv, GivenInv, [Next]_vars
             PROVE  GivenInv'
  OBVIOUS
<1>1. TypeOK /\ ItemsInv /\ BuildingInv
  BY DEF TreeInv
<1>2. CASE UNCHANGED vars
  BY <1>2 DEF vars, GivenInv
<1>3. ASSUME NEW k \in DOMAIN building, NEW pattern \in Patterns, Register(k, pattern)
      PROVE  GivenInv'
  <2> DEFINE r == building[k].router
             x == [pattern |-> pattern, handler |-> Handler(r, Len(items[r]) + 1),
                   router |-> NoRouter]
  <2>1. r \in DOMAIN items
    BY <1>1 DEF BuildingInv
  <2>2. r \in Nat /\ Len(items[r]) + 1 \in Nat
    BY <1>1, <2>1 DEF TypeOK
  <2>3. x \in Item
    BY <2>2 DEF Item, Text, HandlerName, NoRouter
  <2>4. /\ items' = [items EXCEPT ![r] = Append(@, x)] /\ building' = building
        /\ HasRoom(r)
    BY <1>1, <1>3, <2>1 DEF Register, TypeOK
  <2>5. x.pattern \in Patterns /\ x.handler = Handler(r, Len(items[r]) + 1)
    OBVIOUS
  <2> HIDE DEF r, x
  <2>6. \A q \in DOMAIN items' :
            /\ Len(items'[q]) <= MaxItems
            /\ \A i \in DOMAIN items'[q] :
                  /\ items'[q][i].pattern \in Patterns
                  /\ items'[q][i].router = NoRouter => items'[q][i].handler = Handler(q, i)
    BY <1>1, <2>1, <2>3, <2>4, <2>5, OneMoreGiven
  <2>7. QED
    BY <2>4, <2>6 DEF GivenInv
<1>4. ASSUME NEW k \in DOMAIN building, NEW pattern \in Patterns, RouteBegin(k, pattern)
      PROVE  GivenInv'
  <2> DEFINE x == [router |-> Len(items) + 1, parent |-> building[k].router,
                   pattern |-> pattern]
  <2>1. items' = Append(items, <<>>) /\ building' = Append(building, x)
    BY <1>4 DEF RouteBegin
  <2>2. x \in Frame /\ x.pattern \in Patterns
    BY <1>1, FramesAreNumbers DEF Frame, Text, TypeOK
  <2> HIDE DEF x
  <2>3. /\ DOMAIN items' = 1 .. (Len(items) + 1) /\ DOMAIN items = 1 .. Len(items)
        /\ Len(items) \in Nat
        /\ \A q \in DOMAIN items : items'[q] = items[q]
        /\ items'[Len(items) + 1] = <<>>
    BY <1>1, <2>1, OneMoreRouter
  <2>4. /\ DOMAIN building' = 1 .. (Len(building) + 1)
        /\ DOMAIN building = 1 .. Len(building) /\ Len(building) \in Nat
        /\ \A l \in DOMAIN building : building'[l] = building[l]
        /\ building'[Len(building) + 1] = x
    BY <1>1, <2>1, <2>2, OneMoreCall
  <2>5. ASSUME NEW q \in DOMAIN items'
        PROVE  /\ Len(items'[q]) <= MaxItems
               /\ \A i \in DOMAIN items'[q] :
                     /\ items'[q][i].pattern \in Patterns
                     /\ items'[q][i].router = NoRouter
                           => items'[q][i].handler = Handler(q, i)
    <3>1. CASE q \in DOMAIN items
      BY <2>3, <3>1 DEF GivenInv
    <3>2. CASE q = Len(items) + 1
      <4>1. Len(<<>>) = 0 /\ DOMAIN <<>> = {} /\ 0 <= MaxItems
        BY RouterAssumption
      <4>2. QED
        BY <2>3, <3>2, <4>1
    <3>3. QED
      BY <2>3, <3>1, <3>2
  <2>6. ASSUME NEW l \in DOMAIN building', l > 1
        PROVE  building'[l].pattern \in Patterns
    <3>1. CASE l \in DOMAIN building
      BY <2>4, <2>6, <3>1 DEF GivenInv
    <3>2. CASE l = Len(building) + 1
      BY <2>2, <2>4, <3>2
    <3>3. QED
      BY <2>4, <3>1, <3>2
  <2>7. QED
    BY <2>5, <2>6 DEF GivenInv
<1>5. ASSUME RouteEnd
      PROVE  GivenInv'
  <2> DEFINE n == Len(building)
             r == Top.parent
             x == [pattern |-> Top.pattern, handler |-> NoHandler, router |-> Top.router]
  <2>1. n \in Nat /\ n >= 1 /\ Top = building[n] /\ n \in DOMAIN building
        /\ DOMAIN building = 1 .. n /\ building[n] \in Frame
    BY <1>1 DEF TypeOK, Top
  <2>2. n > 1 /\ n - 1 \in 1 .. Len(building)
    BY <1>1, <1>5, <2>1 DEF RouteEnd, BuildingInv
  <2>3. r \in DOMAIN items /\ Top.router \in DOMAIN items /\ Top.pattern \in Patterns
    BY <1>1, <2>1, <2>2 DEF BuildingInv, GivenInv
  <2>4. x \in Item /\ x.pattern \in Patterns /\ x.router = Top.router
    BY <2>1, <2>3 DEF Item, Frame, HandlerName
  <2>5. x.router # NoRouter
    BY <1>1, <2>3, <2>4 DEF TypeOK, NoRouter
  <2>6. /\ items' = [items EXCEPT ![r] = Append(@, x)]
        /\ building' = SubSeq(building, 1, n - 1)
        /\ HasRoom(r)
    BY <1>5 DEF RouteEnd
  <2> HIDE DEF n, r, x
  <2>7. \A q \in DOMAIN items' :
            /\ Len(items'[q]) <= MaxItems
            /\ \A i \in DOMAIN items'[q] :
                  /\ items'[q][i].pattern \in Patterns
                  /\ items'[q][i].router = NoRouter => items'[q][i].handler = Handler(q, i)
    BY <1>1, <2>3, <2>4, <2>5, <2>6, OneMoreGiven
  <2>8. /\ DOMAIN building' = 1 .. (n - 1)
        /\ \A k \in 1 .. (n - 1) : k \in DOMAIN building /\ building'[k] = building[k]
    BY <1>1, <2>2, <2>6, FewerCalls
  <2>9. QED
    BY <2>7, <2>8 DEF GivenInv
<1>6. ASSUME NEW k \in DOMAIN building, RouteThrows(k)
      PROVE  GivenInv'
  <2>1. k \in 1 .. Len(building)
    BY <1>1 DEF TypeOK
  <2>2. /\ DOMAIN building' = 1 .. k
        /\ \A l \in 1 .. k : l \in DOMAIN building /\ building'[l] = building[l]
    BY <1>1, <1>6, <2>1, FewerCalls DEF RouteThrows
  <2>3. items' = items
    BY <1>6 DEF RouteThrows
  <2>4. QED
    BY <2>2, <2>3 DEF GivenInv
<1>7. QED
  BY <1>2, <1>3, <1>4, <1>5, <1>6 DEF Next

LEMMA GivenHolds == Spec => [](TreeInv /\ GivenInv)
<1>1. Init => TreeInv /\ GivenInv
  BY InitTree, InitGiven
<1>2. TreeInv /\ GivenInv /\ [Next]_vars => (TreeInv /\ GivenInv)'
  BY NextTree, NextGiven
<1>3. QED
  BY <1>1, <1>2, PTL DEF Spec

LEMMA PathIs ==
  ASSUME NEW text \in Patterns \union Urls
  PROVE  Path(text) \in Seq(Seq(STRING))
<1>1. text \in Seq(STRING)
  BY RouterAssumption
<1>2. Len(<<"/">>) \in Nat \ {0}
  OBVIOUS
<1>3. QED
  BY <1>1, <1>2, SplitIs DEF Path

\* What a pattern makes of an url.
LEMMA VerdictIs ==
  ASSUME NEW url \in Urls, NEW pattern \in Patterns
  PROVE  Verdict[url][pattern] =
            IF IsPrefixOf(Fixed(Path(pattern)), Path(url)) THEN "yes"
            ELSE IF IsPrefixOf(Path(url), Fixed(Path(pattern))) THEN "undefined"
            ELSE "no"
<1>1. Path(url) \in Seq(Seq(STRING)) /\ Path(pattern) \in Seq(Seq(STRING))
  BY PathIs
<1>2. Verdict[url][pattern] = SegmentsMatch(Path(pattern), Path(url))
  BY DEF Verdict
<1>3. QED
  BY <1>1, <1>2, MatchesPrefixes

\* A pattern matches the urls that begin with its segments before the first
\* wildcard, whatever the patterns and the urls are: the loop of
\* url_matches_pattern ends at the wildcard, at the first segment that
\* differs, or reads behind the end of the url.
THEOREM PatternsMatchPrefixes == Spec => []MatchIsPrefix
<1>1. GivenInv => MatchIsPrefix
  <2> SUFFICES ASSUME GivenInv, NEW r \in DOMAIN items, NEW i \in DOMAIN items[r],
                      NEW url \in Urls
               PROVE  Verdict[url][items[r][i].pattern] =
                        IF IsPrefixOf(Fixed(Path(items[r][i].pattern)), Path(url)) THEN "yes"
                        ELSE IF IsPrefixOf(Path(url), Fixed(Path(items[r][i].pattern)))
                             THEN "undefined"
                        ELSE "no"
    BY Zenon DEF MatchIsPrefix
  <2>1. items[r][i].pattern \in Patterns
    BY DEF GivenInv
  <2>2. QED
    BY <2>1, VerdictIs
<1>2. QED
  BY <1>1, GivenHolds, PTL

-----------------------------------------------------------------------------
(* The function match computes *)

\* Places in the order in which match may come to them: within a router, and
\* from a router to those made after it.
Rank(n, m, q, i) == (n - q) * (m + 1) + (m - i)

LEMMA SumTimes ==
  ASSUME NEW x \in Nat, NEW y \in Nat, NEW z \in Nat, x + y = z, NEW c \in Nat
  PROVE  z * c = x * c + y * c /\ x * c \in Nat /\ y * c \in Nat /\ z * c \in Nat
<1>1. (x + y) * c = x * c + y * c
  OBVIOUS
<1>2. x * c \in Nat /\ y * c \in Nat /\ z * c \in Nat
  OBVIOUS
<1>3. QED
  BY <1>1, <1>2

LEMMA RankFalls ==
  ASSUME NEW n \in Nat, NEW m \in Nat, NEW q \in 1 .. n, NEW i \in 1 .. m
  PROVE  /\ Rank(n, m, q, i) \in 0 .. (n * (m + 1) + m)
         /\ \A p \in 1 .. n, k \in 1 .. m : q < p => Rank(n, m, p, k) < Rank(n, m, q, i)
         /\ \A k \in 1 .. m : i < k => Rank(n, m, q, k) < Rank(n, m, q, i)
<1> DEFINE c == m + 1
<1>1. c \in Nat /\ m - i \in 0 .. m /\ n - q \in 0 .. n
  OBVIOUS
<1> HIDE DEF c
<1>3. n * c = (n - q) * c + q * c /\ (n - q) * c \in Nat /\ q * c \in Nat /\ n * c \in Nat
  <2> DEFINE w == n - q
  <2>1. w \in Nat /\ q \in Nat /\ w + q = n
    OBVIOUS
  <2> HIDE DEF w
  <2>2. n * c = w * c + q * c /\ w * c \in Nat /\ q * c \in Nat /\ n * c \in Nat
    BY <1>1, <2>1, SumTimes
  <2>3. QED
    BY <2>2 DEF w
<1>4. Rank(n, m, q, i) = (n - q) * c + (m - i)
  BY DEF Rank, c
<1>5. Rank(n, m, q, i) \in 0 .. (n * c + m)
  <2> DEFINE a == (n - q) * c
             b == q * c
             d == n * c
             e == m - i
  <2>1. a \in Nat /\ b \in Nat /\ d = a + b /\ e \in 0 .. m /\ Rank(n, m, q, i) = a + e
    BY <1>1, <1>3, <1>4
  <2> HIDE DEF a, b, d, e
  <2>2. a + e \in 0 .. (d + m)
    BY <2>1
  <2>3. QED
    BY <2>1, <2>2 DEF d
<1>6. ASSUME NEW p \in 1 .. n, NEW k \in 1 .. m, q < p
      PROVE  Rank(n, m, p, k) < Rank(n, m, q, i)
  <2> DEFINE x == n - p
             y == n - q
             w == p - q
             v == w - 1
             a == x * c
             b == w * c
             g == v * c
  <2>1. x \in Nat /\ w \in Nat /\ v \in Nat /\ x + w = y /\ v + 1 = w /\ y \in Nat
    BY <1>6
  <2> HIDE DEF x, y, w, v
  <2>20. y * c = a + b /\ a \in Nat /\ b \in Nat
    BY <1>1, <2>1, SumTimes
  <2>2. (n - q) * c = a + b /\ a \in Nat /\ b \in Nat
    BY <2>20 DEF y
  <2>3. w * c = v * c + 1 * c /\ 1 * c = c /\ v * c \in Nat
    BY <1>1, <2>1, SumTimes
  <2>4. Rank(n, m, p, k) = a + (m - k)
    BY DEF Rank, c, a, x
  <2>5. c = m + 1
    BY DEF c
  <2> HIDE DEF a, b
  <2>6. b = g + c /\ g \in Nat
    BY <2>3 DEF b, g
  <2> HIDE DEF g
  <2>7. a + (m - k) < (a + b) + (m - i)
    BY <2>2, <2>5, <2>6
  <2>8. QED
    BY <1>4, <2>2, <2>4, <2>7
<1>7. ASSUME NEW k \in 1 .. m, i < k
      PROVE  Rank(n, m, q, k) < Rank(n, m, q, i)
  <2> DEFINE a == (n - q) * c
  <2>1. Rank(n, m, q, k) = a + (m - k) /\ Rank(n, m, q, i) = a + (m - i) /\ a \in Nat
    BY <1>3, <1>4 DEF Rank, c
  <2> HIDE DEF a
  <2>2. QED
    BY <1>7, <2>1
<1>8. QED
  BY <1>5, <1>6, <1>7 DEF c

Places == (DOMAIN items) \X (1 .. (MaxItems + 1))

Outcomes == HandlerName \union {NoMatch, Crash}

\* What match comes to from item i of router q on, when f is what it comes to
\* from elsewhere.
MatchStep(url, f, q, i) ==
    IF i > Len(items[q]) THEN {NoMatch}
    ELSE LET item    == items[q][i]
             verdict == Verdict[url][item.pattern]
             taken   == IF item.router # NoRouter THEN f[<<item.router, 1>>]
                        ELSE {item.handler}
             further == f[<<q, i + 1>>]
         IN  CASE verdict = "yes" -> taken
               [] verdict = "no"  -> further
               [] OTHER           -> taken \union further \union {Crash}

\* Where an item leads: to the next one, and to a router made later.
LEMMA ItemLeads ==
  ASSUME TreeInv, GivenInv, NEW q \in DOMAIN items, NEW i \in 1 .. (MaxItems + 1),
         ~(i > Len(items[q]))
  PROVE  /\ i \in DOMAIN items[q] /\ i + 1 \in 1 .. (MaxItems + 1)
         /\ items[q][i].handler \in HandlerName
         /\ items[q][i].pattern \in Patterns
         /\ items[q][i].router = NoRouter => items[q][i].handler = Handler(q, i)
         /\ items[q][i].router # NoRouter
              => /\ items[q][i].router \in DOMAIN items /\ q < items[q][i].router
                 /\ items[q][i].router # Root
<1>1. TypeOK /\ ItemsInv
  BY DEF TreeInv
<1>2. items[q] \in Seq(Item) /\ q \in 1 .. Len(items) /\ Len(items) \in Nat
  BY <1>1 DEF TypeOK
<1>3. Len(items[q]) \in Nat /\ DOMAIN items[q] = 1 .. Len(items[q]) /\ Len(items[q]) <= MaxItems
  BY <1>2 DEF GivenInv
<1>4. i \in 1 .. Len(items[q]) /\ i + 1 \in 1 .. (MaxItems + 1)
  BY <1>3, RouterAssumption
<1>5. items[q][i] \in Item
  BY <1>2, <1>4
<1>6. items[q][i].handler \in HandlerName /\ items[q][i].router \in Nat
  BY <1>5 DEF Item
<1>7. /\ items[q][i].pattern \in Patterns
      /\ items[q][i].router = NoRouter => items[q][i].handler = Handler(q, i)
  BY <1>3, <1>4 DEF GivenInv
<1>8. items[q][i].router # NoRouter
         => items[q][i].router \in DOMAIN items /\ q < items[q][i].router
  BY <1>1, <1>3, <1>4 DEF ItemsInv
<1>9. \A k \in Nat : q < k => k # Root
  BY <1>2 DEF Root
<1>10. QED
  BY <1>3, <1>4, <1>6, <1>7, <1>8, <1>9

\* Match is what its recursion says.
LEMMA MatchIs ==
  ASSUME TreeInv, GivenInv, NEW url \in Urls
  PROVE  \E P : /\ Match(url) = P[<<Root, 1>>]
                /\ \A q \in DOMAIN items, i \in 1 .. (MaxItems + 1) :
                      P[<<q, i>>] = MatchStep(url, P, q, i)
<1> DEFINE D == Places
           V == SUBSET Outcomes
           n == Len(items)
           w == MaxItems + 1
           m == n * (w + 1) + w
           rank == [at \in D |-> Rank(n, w, at[1], at[2])]
           H == [at \in D |-> [f \in [D -> V] |-> MatchStep(url, f, at[1], at[2])]]
           P == CHOOSE f : f = [at \in (DOMAIN items) \X (1 .. (MaxItems + 1)) |->
                                  MatchStep(url, f, at[1], at[2])]
<1>1. n \in Nat /\ w \in Nat /\ DOMAIN items = 1 .. n /\ TypeOK
  BY RouterAssumption DEF TreeInv, TypeOK
<1>2. \A at \in D : at[1] \in 1 .. n /\ at[2] \in 1 .. w /\ at[1] \in DOMAIN items
  BY <1>1 DEF Places
<1>3. \A q \in 1 .. n, i \in 1 .. w : <<q, i>> \in D /\ <<q, i>>[1] = q /\ <<q, i>>[2] = i
  BY <1>1 DEF Places
<1>4. V # {} /\ m \in Nat
  <2> HIDE DEF n, w
  <2>1. n * (w + 1) \in Nat
    BY <1>1
  <2>2. QED
    BY <1>1, <2>1
<1>5. rank \in [D -> 0 .. m]
  <2>1. \A at \in D : Rank(n, w, at[1], at[2]) \in 0 .. m
    <3> HIDE DEF n, w
    <3>1. QED
      BY <1>1, <1>2, RankFalls
  <2> HIDE DEF m, D
  <2>2. QED
    BY <2>1
<1>6. ASSUME NEW at \in D, ~(at[2] > Len(items[at[1]]))
      PROVE  /\ <<at[1], at[2] + 1>> \in D /\ rank[<<at[1], at[2] + 1>>] < rank[at]
             /\ items[at[1]][at[2]].handler \in HandlerName
             /\ items[at[1]][at[2]].router # NoRouter
                  => /\ <<items[at[1]][at[2]].router, 1>> \in D
                     /\ rank[<<items[at[1]][at[2]].router, 1>>] < rank[at]
  <2> DEFINE q == at[1]
             i == at[2]
             r == items[q][i].router
  <2>1. q \in 1 .. n /\ i \in 1 .. w /\ q \in DOMAIN items
    BY <1>2
  <2>2. /\ i + 1 \in 1 .. w /\ items[q][i].handler \in HandlerName
        /\ r # NoRouter => r \in DOMAIN items /\ q < r
    BY <1>6, <2>1, ItemLeads
  <2>3. rank[at] = Rank(n, w, q, i)
    OBVIOUS
  <2>4. <<q, i + 1>> \in D /\ rank[<<q, i + 1>>] = Rank(n, w, q, i + 1)
    BY <1>3, <2>1, <2>2
  <2>5. i < i + 1 /\ 1 \in 1 .. w
    BY <1>1, <2>1
  <2>6. r # NoRouter => <<r, 1>> \in D /\ rank[<<r, 1>>] = Rank(n, w, r, 1) /\ r \in 1 .. n
    BY <1>1, <1>3, <2>2, <2>5
  <2> HIDE DEF q, i, r, n, w, rank, D, m
  <2>7. rank[<<q, i + 1>>] < rank[at]
    BY <1>1, <2>1, <2>2, <2>3, <2>4, <2>5, RankFalls
  <2>8. r # NoRouter => rank[<<r, 1>>] < rank[at]
    BY <1>1, <2>1, <2>2, <2>3, <2>5, <2>6, RankFalls
  <2>9. QED
    BY <2>2, <2>4, <2>6, <2>7, <2>8 DEF q, i, r
<1>7. ASSUME NEW f \in [D -> V], NEW at \in D
      PROVE  MatchStep(url, f, at[1], at[2]) \in V
  <2>1. CASE at[2] > Len(items[at[1]])
    BY <2>1 DEF MatchStep, Outcomes
  <2>2. CASE ~(at[2] > Len(items[at[1]]))
    <3> DEFINE item    == items[at[1]][at[2]]
               taken   == IF item.router # NoRouter THEN f[<<item.router, 1>>]
                          ELSE {item.handler}
               further == f[<<at[1], at[2] + 1>>]
    <3>1. further \in V
      BY <1>6, <2>2
    <3>2. taken \in V
      <4>1. CASE item.router # NoRouter
        BY <1>6, <2>2, <4>1
      <4>2. CASE item.router = NoRouter
        BY <1>6, <2>2, <4>2 DEF Outcomes
      <4>3. QED
        BY <4>1, <4>2
    <3>3. {Crash} \in V
      BY DEF Outcomes
    <3>4. MatchStep(url, f, at[1], at[2]) =
            CASE Verdict[url][item.pattern] = "yes" -> taken
              [] Verdict[url][item.pattern] = "no"  -> further
              [] OTHER -> taken \union further \union {Crash}
      BY <2>2 DEF MatchStep
    <3> HIDE DEF taken, further, item
    <3>5. QED
      BY <3>1, <3>2, <3>3, <3>4
  <2>3. QED
    BY <2>1, <2>2
<1>8. ASSUME NEW at \in D, NEW f \in [D -> V], NEW g \in [D -> V],
             \A y \in D : rank[y] < rank[at] => f[y] = g[y]
      PROVE  MatchStep(url, f, at[1], at[2]) = MatchStep(url, g, at[1], at[2])
  <2>1. CASE at[2] > Len(items[at[1]])
    BY <2>1 DEF MatchStep
  <2>2. CASE ~(at[2] > Len(items[at[1]]))
    <3>1. f[<<at[1], at[2] + 1>>] = g[<<at[1], at[2] + 1>>]
      BY <1>6, <1>8, <2>2
    <3>2. items[at[1]][at[2]].router # NoRouter
            => f[<<items[at[1]][at[2]].router, 1>>] = g[<<items[at[1]][at[2]].router, 1>>]
      BY <1>6, <1>8, <2>2
    <3>3. QED
      BY <3>1, <3>2 DEF MatchStep
  <2>3. QED
    BY <2>1, <2>2
<1>9. H \in [D -> [[D -> V] -> V]]
  BY <1>7
<1>10. \A x \in D : \A f, g \in [D -> V] :
          (\A y \in D : rank[y] < rank[x] => f[y] = g[y]) => H[x][f] = H[x][g]
  BY <1>8
<1>11. \A x \in D, f \in [D -> V] : H[x][f] = MatchStep(url, f, x[1], x[2])
  OBVIOUS
<1>12. ByRank(D, V, m, rank, H)
  <2> HIDE DEF m, rank, H, V, D
  <2>1. QED
    BY <1>4, <1>5, <1>9, <1>10 DEF ByRank
<1> HIDE DEF m, rank, H, V
<1>13. PICK f \in [D -> V] : \A x \in D : f[x] = H[x][f]
  BY <1>12, Recursion
<1>14. f = [at \in D |-> MatchStep(url, f, at[1], at[2])]
  BY <1>11, <1>13
<1>15. P = [at \in D |-> MatchStep(url, P, at[1], at[2])]
  BY <1>14 DEF Places
<1>16. Match(url) = P[<<Root, 1>>]
  BY DEF Match, MatchStep
<1> HIDE DEF P
<1>17. \A q \in DOMAIN items, i \in 1 .. (MaxItems + 1) : P[<<q, i>>] = MatchStep(url, P, q, i)
  <2> SUFFICES ASSUME NEW q \in 1 .. n, NEW i \in 1 .. w
               PROVE  P[<<q, i>>] = MatchStep(url, P, q, i)
    BY <1>1
  <2> DEFINE at == <<q, i>>
  <2>1. at \in D /\ at[1] = q /\ at[2] = i
    BY <1>3
  <2> HIDE DEF at, D, n, w
  <2>2. P[at] = MatchStep(url, P, at[1], at[2])
    BY <1>15, <2>1
  <2>3. QED
    BY <2>1, <2>2 DEF at
<1>18. QED
  BY <1>16, <1>17

-----------------------------------------------------------------------------
(* What a handler's place keeps from it *)

\* Of the prefixes of a sequence one is a prefix of the other.
LEMMA PrefixesCompare ==
  ASSUME NEW S, NEW a \in Seq(S), NEW b \in Seq(S), NEW u \in Seq(S)
  PROVE  /\ IsPrefixOf(a, b) /\ IsPrefixOf(b, u) => IsPrefixOf(a, u)
         /\ IsPrefixOf(a, b) /\ IsPrefixOf(u, b) => IsPrefixOf(a, u) \/ IsPrefixOf(u, a)
<1>1. /\ IsPrefixOf(a, b) <=> Len(a) <= Len(b) /\ \A i \in 1 .. Len(a) : a[i] = b[i]
      /\ IsPrefixOf(b, u) <=> Len(b) <= Len(u) /\ \A i \in 1 .. Len(b) : b[i] = u[i]
      /\ IsPrefixOf(u, b) <=> Len(u) <= Len(b) /\ \A i \in 1 .. Len(u) : u[i] = b[i]
      /\ IsPrefixOf(a, u) <=> Len(a) <= Len(u) /\ \A i \in 1 .. Len(a) : a[i] = u[i]
      /\ IsPrefixOf(u, a) <=> Len(u) <= Len(a) /\ \A i \in 1 .. Len(u) : u[i] = a[i]
  BY PrefixIs
<1>2. Len(a) \in Nat /\ Len(b) \in Nat /\ Len(u) \in Nat
  OBVIOUS
<1>3. Len(a) <= Len(b) => \A i \in 1 .. Len(a) : i \in 1 .. Len(b)
  BY <1>2
<1>4. Len(a) <= Len(b) /\ Len(b) <= Len(u) => Len(a) <= Len(u)
  BY <1>2
<1>5. \/ Len(a) <= Len(u) /\ \A i \in 1 .. Len(a) : i \in 1 .. Len(u)
      \/ Len(u) <= Len(a) /\ \A i \in 1 .. Len(u) : i \in 1 .. Len(a)
  BY <1>2
<1>6. IsPrefixOf(a, b) /\ IsPrefixOf(b, u) => IsPrefixOf(a, u)
  BY <1>1, <1>3, <1>4
<1>7. ASSUME IsPrefixOf(a, b), IsPrefixOf(u, b)
      PROVE  IsPrefixOf(a, u) \/ IsPrefixOf(u, a)
  <2>1. CASE Len(a) <= Len(u) /\ \A i \in 1 .. Len(a) : i \in 1 .. Len(u)
    BY <1>1, <1>7, <2>1
  <2>2. CASE Len(u) <= Len(a) /\ \A i \in 1 .. Len(u) : i \in 1 .. Len(a)
    BY <1>1, <1>7, <2>2
  <2>3. QED
    BY <1>5, <2>1, <2>2
<1>8. QED
  BY <1>6, <1>7

\* A pattern that matches nothing of an url leaves no chance to one whose
\* fixed segments begin with its own.
LEMMA ShadowMatches ==
  ASSUME NEW url \in Urls, NEW a \in Patterns, NEW b \in Patterns,
         IsPrefixOf(Fixed(Path(a)), Fixed(Path(b)))
  PROVE  /\ Verdict[url][a] \in {"yes", "no", "undefined"}
         /\ Verdict[url][a] = "no" => Verdict[url][b] = "no"
<1> DEFINE fa == Fixed(Path(a))
           fb == Fixed(Path(b))
           u  == Path(url)
<1>1. Path(a) \in Seq(Seq(STRING)) /\ Path(b) \in Seq(Seq(STRING)) /\ u \in Seq(Seq(STRING))
  BY PathIs
<1>2. fa \in Seq(Seq(STRING)) /\ fb \in Seq(Seq(STRING))
  BY <1>1, FixedIs
<1>3. /\ Verdict[url][a] = IF IsPrefixOf(fa, u) THEN "yes"
                           ELSE IF IsPrefixOf(u, fa) THEN "undefined" ELSE "no"
      /\ Verdict[url][b] = IF IsPrefixOf(fb, u) THEN "yes"
                           ELSE IF IsPrefixOf(u, fb) THEN "undefined" ELSE "no"
  BY VerdictIs
<1>4. IsPrefixOf(fa, fb)
  OBVIOUS
<1> HIDE DEF fa, fb, u
<1>5. /\ IsPrefixOf(fb, u) => IsPrefixOf(fa, u)
      /\ IsPrefixOf(u, fb) => IsPrefixOf(fa, u) \/ IsPrefixOf(u, fa)
  BY <1>1, <1>2, <1>4, PrefixesCompare
<1>6. QED
  BY <1>3, <1>5

\* Handlers are told apart by their places, and from the other outcomes.
LEMMA HandlersDiffer ==
  /\ \A q, i, r, k : Handler(q, i) = Handler(r, k) => q = r /\ i = k
  /\ \A q, i : Handler(q, i) # NoMatch /\ Handler(q, i) # Crash /\ Handler(q, i) # NoHandler
<1>1. \A q, i : /\ Handler(q, i)[1] = "handler" /\ Handler(q, i)[2] = q
                /\ Handler(q, i)[3] = i
  BY DEF Handler
<1>2. NoMatch[1] = "no match" /\ Crash[1] = "crash" /\ NoHandler[1] = "nullptr"
  BY DEF NoMatch, Crash, NoHandler
<1>3. "handler" # "no match" /\ "handler" # "crash" /\ "handler" # "nullptr"
  OBVIOUS
<1>4. \A q, i, r, k : Handler(q, i) = Handler(r, k) => q = r /\ i = k
  <2>1. ASSUME NEW q, NEW i, NEW r, NEW k, Handler(q, i) = Handler(r, k)
        PROVE  q = r /\ i = k
    <3>1. Handler(q, i)[2] = Handler(r, k)[2] /\ Handler(q, i)[3] = Handler(r, k)[3]
      BY <2>1, Zenon
    <3>2. /\ Handler(q, i)[2] = q /\ Handler(q, i)[3] = i
          /\ Handler(r, k)[2] = r /\ Handler(r, k)[3] = k
      BY DEF Handler
    <3> HIDE DEF Handler
    <3>3. QED
      BY <3>1, <3>2
  <2>2. QED
    BY <2>1
<1>5. \A q, i : Handler(q, i) # NoMatch /\ Handler(q, i) # Crash /\ Handler(q, i) # NoHandler
  BY <1>1, <1>2, <1>3, Zenon
<1>6. QED
  BY <1>4, <1>5

\* A handler of the root is only reached through the root.
LEMMA OtherRoutersNeverCall ==
  ASSUME TreeInv, GivenInv, NEW url \in Urls, NEW h, NEW P,
         \A q \in DOMAIN items, i \in 1 .. (MaxItems + 1) :
            P[<<q, i>>] = MatchStep(url, P, q, i)
  PROVE  \A q \in DOMAIN items, i \in 1 .. (MaxItems + 1) :
            q # Root => Handler(Root, h) \notin P[<<q, i>>]
<1> DEFINE D == Places
           n == Len(items)
           w == MaxItems + 1
           m == n * (w + 1) + w
           rank == [at \in D |-> Rank(n, w, at[1], at[2])]
           G == {at \in D : at[1] # Root => Handler(Root, h) \notin P[at]}
<1>1. n \in Nat /\ w \in Nat /\ DOMAIN items = 1 .. n /\ TypeOK
  BY RouterAssumption DEF TreeInv, TypeOK
<1>2. \A at \in D : /\ at[1] \in 1 .. n /\ at[2] \in 1 .. w /\ at[1] \in DOMAIN items
                    /\ at = <<at[1], at[2]>>
  BY <1>1 DEF Places
<1>3. \A q \in 1 .. n, i \in 1 .. w : <<q, i>> \in D /\ <<q, i>>[1] = q /\ <<q, i>>[2] = i
  BY <1>1 DEF Places
<1>4. m \in Nat
  <2> HIDE DEF n, w
  <2>1. n * (w + 1) \in Nat
    BY <1>1
  <2>2. QED
    BY <1>1, <2>1
<1>5. rank \in [D -> 0 .. m]
  <2>1. \A at \in D : Rank(n, w, at[1], at[2]) \in 0 .. m
    <3> HIDE DEF n, w
    <3>1. QED
      BY <1>1, <1>2, RankFalls
  <2> HIDE DEF m, D
  <2>2. QED
    BY <2>1
<1>6. ASSUME NEW at \in D, \A y \in D : rank[y] < rank[at] => y \in G
      PROVE  at \in G
  <2> DEFINE q == at[1]
             i == at[2]
             r == items[q][i].router
  <2>1. q \in 1 .. n /\ i \in 1 .. w /\ q \in DOMAIN items /\ at = <<q, i>>
    BY <1>2
  <2>2. P[at] = MatchStep(url, P, q, i)
    BY <2>1, Zenon
  <2>3. SUFFICES ASSUME q # Root PROVE Handler(Root, h) \notin P[at]
    OBVIOUS
  <2>4. CASE i > Len(items[q])
    <3>1. P[at] = {NoMatch}
      BY <2>2, <2>4 DEF MatchStep
    <3>2. QED
      BY <3>1, HandlersDiffer
  <2>5. CASE ~(i > Len(items[q]))
    <3>1. /\ i + 1 \in 1 .. w
          /\ r = NoRouter => items[q][i].handler = Handler(q, i)
          /\ r # NoRouter => r \in DOMAIN items /\ q < r /\ r # Root
      BY <2>1, <2>5, ItemLeads
    <3>2. rank[at] = Rank(n, w, q, i)
      OBVIOUS
    <3>3. <<q, i + 1>> \in D /\ rank[<<q, i + 1>>] = Rank(n, w, q, i + 1) /\ <<q, i + 1>>[1] = q
      BY <1>3, <2>1, <3>1
    <3>4. i < i + 1 /\ 1 \in 1 .. w
      BY <1>1, <2>1
    <3>5. r # NoRouter => /\ <<r, 1>> \in D /\ rank[<<r, 1>>] = Rank(n, w, r, 1)
                          /\ r \in 1 .. n /\ <<r, 1>>[1] = r
      BY <1>1, <1>3, <3>1, <3>4
    <3>6. <<q, i + 1>> \in G
      <4> HIDE DEF q, i, r, n, w, rank, D, m
      <4>1. rank[<<q, i + 1>>] < rank[at]
        BY <1>1, <2>1, <3>1, <3>2, <3>3, <3>4, RankFalls
      <4>2. QED
        BY <1>6, <3>3, <4>1
    <3>7. r # NoRouter => <<r, 1>> \in G
      <4> HIDE DEF q, i, r, n, w, rank, D, m
      <4>1. r # NoRouter => rank[<<r, 1>>] < rank[at]
        <5>1. n \in Nat /\ w \in Nat /\ q \in 1 .. n /\ i \in 1 .. w /\ 1 \in 1 .. w
          BY <1>1, <2>1, <3>4
        <5>2. \A p \in 1 .. n, k \in 1 .. w : q < p => Rank(n, w, p, k) < Rank(n, w, q, i)
          BY <5>1, RankFalls
        <5>3. QED
          BY <3>1, <3>2, <3>5, <5>1, <5>2
      <4>2. QED
        BY <1>6, <3>5, <4>1
    <3>8. Handler(Root, h) \notin P[<<q, i + 1>>]
      BY <2>3, <3>3, <3>6
    <3>9. r # NoRouter => Handler(Root, h) \notin P[<<r, 1>>]
      BY <3>1, <3>5, <3>7
    <3>10. r = NoRouter => Handler(Root, h) # items[q][i].handler
      BY <2>3, <3>1, HandlersDiffer
    <3>11. Handler(Root, h) \notin {Crash}
      BY HandlersDiffer
    <3> DEFINE verdict == Verdict[url][items[q][i].pattern]
               taken   == IF r # NoRouter THEN P[<<r, 1>>] ELSE {items[q][i].handler}
    <3>12. Handler(Root, h) \notin taken
      BY <3>9, <3>10
    <3>13. P[at] = CASE verdict = "yes" -> taken
                     [] verdict = "no"  -> P[<<q, i + 1>>]
                     [] OTHER -> taken \union P[<<q, i + 1>>] \union {Crash}
      BY <2>2, <2>5 DEF MatchStep
    <3> HIDE DEF taken, verdict, q, i, r
    <3>14. QED
      BY <3>8, <3>11, <3>12, <3>13
  <2>6. QED
    BY <2>4, <2>5
<1>7. G \in SUBSET D
  OBVIOUS
<1>8. G = D
  <2> HIDE DEF m, rank, G, D
  <2>1. QED
    BY <1>4, <1>5, <1>6, <1>7, RankInduction
<1>9. QED
  BY <1>1, <1>3, <1>8

LEMMA GivenIsShadowed == TreeInv /\ GivenInv => ShadowedIsNeverCalled
<1> SUFFICES ASSUME TreeInv, GivenInv, NEW url \in Urls, NEW i \in DOMAIN items[Root],
                    items[Root][i].router = NoRouter,
                    NEW j \in 1 .. (i - 1),
                    IsPrefixOf(Fixed(Path(items[Root][j].pattern)),
                               Fixed(Path(items[Root][i].pattern)))
             PROVE  \/ Crash \in Match(url)
                    \/ items[Root][i].handler \notin Match(url)
  BY Zenon DEF ShadowedIsNeverCalled
<1> DEFINE w == MaxItems + 1
           mine == Handler(Root, i)
           verdict(k) == Verdict[url][items[Root][k].pattern]
<1>1. /\ Root \in DOMAIN items /\ items[Root] \in Seq(Item)
      /\ Len(items[Root]) \in Nat /\ DOMAIN items[Root] = 1 .. Len(items[Root])
      /\ Len(items[Root]) <= MaxItems /\ MaxItems \in Nat
  <2>1. Root \in DOMAIN items
    BY DEF TreeInv, TypeOK, Root
  <2>2. QED
    BY <2>1, RouterAssumption DEF TreeInv, TypeOK, GivenInv
<1>2. /\ i \in 1 .. w /\ i \in 1 .. Len(items[Root]) /\ i \in Nat
      /\ j \in 1 .. Len(items[Root]) /\ j \in 1 .. w /\ j < i /\ j \in Nat
      /\ j \in DOMAIN items[Root]
  BY <1>1
<1>3. /\ items[Root][i].handler = mine
      /\ items[Root][i].pattern \in Patterns /\ items[Root][j].pattern \in Patterns
  BY <1>1, <1>2 DEF GivenInv
<1>4. /\ verdict(j) \in {"yes", "no", "undefined"}
      /\ verdict(j) = "no" => verdict(i) = "no"
  BY <1>3, ShadowMatches
<1>5. PICK P : /\ Match(url) = P[<<Root, 1>>]
               /\ \A q \in DOMAIN items, k \in 1 .. (MaxItems + 1) :
                     P[<<q, k>>] = MatchStep(url, P, q, k)
  BY MatchIs
<1>6. \A q \in DOMAIN items, k \in 1 .. w : q # Root => mine \notin P[<<q, k>>]
  BY <1>5, OtherRoutersNeverCall
<1> DEFINE Fine(k) == Crash \in P[<<Root, k>>] \/ mine \notin P[<<Root, k>>]
           taken(k) == IF items[Root][k].router # NoRouter
                       THEN P[<<items[Root][k].router, 1>>] ELSE {items[Root][k].handler}
<1>7. \A k \in 1 .. w : k > Len(items[Root]) => Fine(k)
  <2>1. \A k \in 1 .. w : k > Len(items[Root]) => P[<<Root, k>>] = {NoMatch}
    BY <1>1, <1>5 DEF MatchStep
  <2>2. mine \notin {NoMatch}
    BY HandlersDiffer
  <2>3. QED
    BY <2>1, <2>2
<1>8. ASSUME NEW k \in 1 .. w, ~(k > Len(items[Root]))
      PROVE  /\ k + 1 \in 1 .. w
             /\ P[<<Root, k>>] = CASE verdict(k) = "yes" -> taken(k)
                                   [] verdict(k) = "no"  -> P[<<Root, k + 1>>]
                                   [] OTHER -> taken(k) \union P[<<Root, k + 1>>]
                                                 \union {Crash}
             /\ k # i => mine \notin taken(k)
  <2>1. /\ k + 1 \in 1 .. w
        /\ items[Root][k].router = NoRouter => items[Root][k].handler = Handler(Root, k)
        /\ items[Root][k].router # NoRouter
             => items[Root][k].router \in DOMAIN items /\ items[Root][k].router # Root
    BY <1>1, <1>8, ItemLeads
  <2>2. P[<<Root, k>>] = MatchStep(url, P, Root, k)
    BY <1>1, <1>5
  <2>3. P[<<Root, k>>] = CASE verdict(k) = "yes" -> taken(k)
                           [] verdict(k) = "no"  -> P[<<Root, k + 1>>]
                           [] OTHER -> taken(k) \union P[<<Root, k + 1>>] \union {Crash}
    BY <1>8, <2>2 DEF MatchStep
  <2>4. ASSUME k # i
        PROVE  mine \notin taken(k)
    <3>1. CASE items[Root][k].router = NoRouter
      <4>1. taken(k) = {Handler(Root, k)}
        BY <2>1, <3>1
      <4>2. mine # Handler(Root, k)
        BY <2>4, HandlersDiffer
      <4>3. QED
        BY <4>1, <4>2
    <3>2. CASE items[Root][k].router # NoRouter
      <4>1. 1 \in 1 .. w
        BY <1>1
      <4>2. QED
        BY <1>6, <2>1, <3>2, <4>1
    <3>3. QED
      BY <3>1, <3>2
  <2>5. QED
    BY <2>1, <2>3, <2>4
<1> HIDE DEF mine, taken, verdict, w
<1>9. ASSUME NEW k \in 1 .. w, ~(k > Len(items[Root])), Fine(k + 1), k # i \/ verdict(k) = "no"
      PROVE  Fine(k)
  <2>1. CASE verdict(k) = "yes"
    BY <1>8, <1>9, <2>1
  <2>2. CASE verdict(k) = "no"
    BY <1>8, <1>9, <2>2
  <2>3. CASE verdict(k) # "yes" /\ verdict(k) # "no"
    BY <1>8, <1>9, <2>3
  <2>4. QED
    BY <2>1, <2>2, <2>3
<1>10. 1 \in 1 .. w /\ w \in Nat /\ 1 \in 1 .. j
  BY <1>1, <1>2 DEF w
<1>11. CASE verdict(i) = "no"
  <2> DEFINE G == {k \in 1 .. w : Fine(k)}
  <2>1. ASSUME NEW k \in 1 .. w, \A l \in (k + 1) .. w : l \in G
        PROVE  k \in G
    <3>1. CASE k > Len(items[Root])
      BY <1>7, <3>1
    <3>2. CASE ~(k > Len(items[Root]))
      <4>1. k + 1 \in 1 .. w
        BY <1>8, <3>2
      <4>2. k + 1 \in (k + 1) .. w
        BY <1>10, <4>1
      <4>3. Fine(k + 1)
        BY <2>1, <4>2
      <4>4. k # i \/ verdict(k) = "no"
        BY <1>11
      <4>5. QED
        BY <1>9, <3>2, <4>3, <4>4
    <3>3. QED
      BY <3>1, <3>2
  <2>2. G \in SUBSET (1 .. w)
    OBVIOUS
  <2> HIDE DEF G
  <2>3. G = 1 .. w
    BY <1>10, <2>1, <2>2, GoingDown
  <2>4. Fine(1)
    BY <1>10, <2>3 DEF G
  <2>5. QED
    BY <1>3, <1>5, <2>4
<1>12. CASE verdict(i) # "no"
  <2>1. verdict(j) = "yes" \/ verdict(j) = "undefined"
    BY <1>4, <1>12
  <2>2. ~(j > Len(items[Root])) /\ j # i
    BY <1>1, <1>2
  <2>3. Fine(j)
    <3>1. CASE verdict(j) = "yes"
      <4>1. P[<<Root, j>>] = taken(j) /\ mine \notin taken(j)
        BY <1>2, <1>8, <2>2, <3>1
      <4>2. QED
        BY <4>1
    <3>2. CASE verdict(j) = "undefined"
      <4>1. verdict(j) # "yes" /\ verdict(j) # "no"
        BY <3>2
      <4>2. Crash \in P[<<Root, j>>]
        BY <1>2, <1>8, <2>2, <4>1
      <4>3. QED
        BY <4>2
    <3>3. QED
      BY <2>1, <3>1, <3>2
  <2> DEFINE G == {k \in 1 .. j : Fine(k)}
  <2>4. ASSUME NEW k \in 1 .. j, \A l \in (k + 1) .. j : l \in G
        PROVE  k \in G
    <3>1. CASE k = j
      BY <2>3, <3>1
    <3>2. CASE k # j
      <4>1. /\ k + 1 \in (k + 1) .. j /\ k # i /\ k \in 1 .. w
            /\ ~(k > Len(items[Root]))
        BY <1>1, <1>2, <1>10, <3>2
      <4>2. Fine(k + 1)
        BY <2>4, <4>1
      <4>3. QED
        BY <1>9, <4>1, <4>2
    <3>3. QED
      BY <3>1, <3>2
  <2>5. G \in SUBSET (1 .. j)
    OBVIOUS
  <2> HIDE DEF G
  <2>6. G = 1 .. j
    BY <1>2, <2>4, <2>5, GoingDown
  <2>7. Fine(1)
    BY <1>10, <2>6 DEF G
  <2>8. QED
    BY <1>3, <1>5, <2>7
<1>13. QED
  BY <1>11, <1>12

\* Handlers are tried in the order in which they were registered: one behind
\* an item whose fixed segments its own begin with is never called, whatever
\* routers hang below the root, unless match reads behind the end of the url.
THEOREM ShadowedHandlersAreNeverCalled == Spec => []ShadowedIsNeverCalled
  BY GivenIsShadowed, GivenHolds, PTL
=============================================================================
