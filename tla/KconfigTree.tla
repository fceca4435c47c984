------------------------------- MODULE KconfigTree -------------------------------
(* Reading a configuration file: its statements one by one, menu_finalize at   *)
(* the end, then the search for loops over the symbols, which come in the       *)
(* order of a hash table (support/kconfig/zconf.y: conf_parse).                 *)
EXTENDS KconfigLoops

CONSTANT Files      \* the files, as sequences of statements

VARIABLES
    tree,           \* the tree as parsed or finalized
    rest,           \* the statements that are left
    parsed,         \* the tree before menu_finalize
    walk            \* the search for loops
tree_vars == <<tree, rest, parsed, walk>>

NoTree == <<>>
TreeStart == tree = _menu_init /\ parsed = NoTree /\ walk = Unwalked
TreeInit == rest \in Files /\ TreeStart

ReadStatement ==
    /\ rest # <<>>
    /\ tree' = Statement(tree, Head(rest))
    /\ rest' = Tail(rest)
    /\ UNCHANGED <<parsed, walk>>

EndOfFile ==
    /\ rest = <<>> /\ parsed = NoTree
    /\ tree' = menu_finalize(tree, ROOT, 0)
    /\ parsed' = tree
    /\ UNCHANGED <<rest, walk>>

Declared == {tree.menu[m].sym : m \in DOMAIN tree.menu} \ {NoSym}
CheckSymbol(s) ==
    /\ parsed # NoTree
    /\ s \in Declared \ walk.checked
    /\ walk' = sym_check_deps(tree, walk, s)
    /\ UNCHANGED <<tree, rest, parsed>>

TreeNext == ReadStatement \/ EndOfFile \/ \E s \in DOMAIN SymType : CheckSymbol(s)

--------------------------------------------------------------------------------
Finalized == parsed # NoTree
Nodes == DOMAIN tree.menu

\* Nodes refer to nodes, properties to their node, which shares their symbol.
TypeOK ==
    /\ tree.entry \in Nodes /\ tree.top \in Nodes
    /\ \A m \in Nodes : /\ tree.menu[m].parent \in Nodes \cup {0}
                        /\ ToSet(tree.menu[m].list) \subseteq Nodes
                        /\ tree.menu[m].prompt \in DOMAIN tree.prop \cup {0}
    /\ \A i \in DOMAIN tree.prop : tree.prop[i].sym = tree.menu[tree.prop[i].menu].sym
    /\ walk.checked \subseteq DOMAIN SymType /\ UNION {ToSet(loop) : loop \in walk.printed} \subseteq walk.checked

RECURSIVE PreOrder(_)
PreOrder(m) == <<m>> \o FlattenSeq([i \in DOMAIN tree.menu[m].list |-> PreOrder(tree.menu[m].list[i])])
\* However the automatic submenus and the ifs move the entries about (menu.c:
\* 450-580), every entry stays in the tree once, in the order of the file, and
\* knows the node it is under.
EntriesKept ==
    Finalized =>
        /\ PreOrder(ROOT) = [i \in Nodes |-> i]
        /\ \A m \in Nodes : \A c \in ToSet(tree.menu[m].list) : tree.menu[c].parent = m

\* The loops there are: a choice and its values are one node, and a value may
\* depend on its choice.
Node1(s) == IF ChoiceOf(tree, s) = NoSym THEN s ELSE ChoiceOf(tree, s)
IsReadBy(b, a) == b # ChoiceOf(tree, a) /\ \E e \in ToSet(CheckedExprs(tree, a)) : Contains(SymbolsOf(e), b)
Reads == {<<Node1(p[1]), Node1(p[2])>> : p \in {q \in Declared \X DOMAIN SymType : IsReadBy(q[2], q[1])}}
RECURSIVE ReachedBy(_)
ReachedBy(from) == LET next == from \cup {e[2] : e \in {f \in Reads : f[1] \in from}}
                   IN  IF next = from THEN from ELSE ReachedBy(next)
Cyclic == \E e \in Reads : e[1] \in ReachedBy({e[2]})

\* One symbol leads to the next on what is printed: it reads it, or one is a value of
\* the other, or both are the choice, which is printed twice when a value led to it.
LeadsTo(a, b) ==
    \/ IsReadBy(b, a)
    \/ ChoiceOf(tree, a) = b \/ ChoiceOf(tree, b) = a
    \/ a \in ChoiceSyms /\ a = b
IsLoop(loop) ==
    LET next(i) == loop[(i % Len(loop)) + 1]
    IN  /\ loop # Unexpected
        /\ \A i \in DOMAIN loop : LeadsTo(loop[i], next(i))
        /\ \E i \in DOMAIN loop : IsReadBy(next(i), loop[i])

\* Whatever the order of the symbols, a loop is reported when there is one and
\* only then, although the flags of one search cut the next one short; what is
\* printed is that loop, from the symbol met again and back to it; and a loop that
\* was reported does not stop conf_parse (zconf.y:553-560, symbol.c:1128-1204).
LoopsReported ==
    Finalized =>
        /\ \A loop \in walk.printed : IsLoop(loop)
        /\ walk.printed # {} => Cyclic
        /\ Declared \subseteq walk.checked /\ Cyclic => walk.printed # {}
        /\ walk.found = NoSym /\ walk.check = {} /\ walk.stack = <<>>
================================================================================
