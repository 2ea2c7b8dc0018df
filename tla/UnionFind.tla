------------------------------- MODULE UnionFind -------------------------------
(***************************************************************************)
(* UnionFind (math/union_find.h) as operators on the map parent_: what a    *)
(* call leaves of it, path compression included.                            *)
(***************************************************************************)

Root(parent, x) ==
    LET root[y \in DOMAIN parent] == IF parent[y] = y THEN y ELSE root[parent[y]]
    IN root[x]

(* Find() inserts an element it does not know, and makes everything on the way *)
(* to the root point at the root.                                             *)
AfterFind(parent, x) ==
    IF x \notin DOMAIN parent
    THEN [y \in {x} \cup (DOMAIN parent) |-> IF y = x THEN x ELSE parent[y]]
    ELSE LET path[y \in DOMAIN parent] ==
                 IF parent[y] = y THEN {y} ELSE {y} \cup path[parent[y]]
         IN [y \in DOMAIN parent |-> IF y \in path[x] THEN Root(parent, x) ELSE parent[y]]

AfterUnion_NoRoots(parent, x, y) ==
    [AfterFind(AfterFind(parent, x), y) EXCEPT ![x] = y]

AfterUnion(parent, x, y) ==
    LET found == AfterFind(AfterFind(parent, x), y)
    IN [found EXCEPT ![Root(found, x)] = Root(found, y)]

(* Compress(), and the sets that Parents() then shows *)
Compressed(parent) == [x \in DOMAIN parent |-> Root(parent, x)]
SetsOf(parent) ==
    {{x \in DOMAIN parent : parent[x] = r} : r \in {parent[x] : x \in DOMAIN parent}}

(* What a union-find is for: two elements have one root if and only if the pairs *)
(* joined so far connect them.  Every chain of parents ends, or there is no root. *)
Classes(pairs) ==
    LET nodes == UNION {{p[1], p[2]} : p \in pairs}
        near(S) == S \cup UNION {{p[1], p[2]} : p \in {q \in pairs : q[1] \in S \/ q[2] \in S}}
        grow[S \in SUBSET nodes] == IF near(S) = S THEN S ELSE grow[near(S)]
    IN {grow[{x}] : x \in nodes}

Joins(parent, pairs) == SetsOf(Compressed(parent)) = Classes(pairs)
=============================================================================
