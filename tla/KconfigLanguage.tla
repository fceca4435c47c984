----------------------------- MODULE KconfigLanguage -----------------------------
(* The configuration language: two conditions are rewritten, or a file is read.  *)
EXTENDS KconfigRewrite, KconfigTree

\* The value of what the file says above and at an entry, read off the parsed
\* tree: the depends, ifs, menus and visible ifs around it, down from a choice.
RECURSIVE Above(_, _)
Above(m, v) ==
    LET p == parsed.menu[m].parent
        own == expr_calc_value(rewrite_m(parsed.menu[m].dep), v)
    IN  IF m = ROOT THEN yes
        ELSE IF IsChoice(parsed, p) THEN Lesser(own, v[parsed.menu[p].sym].tri)
        ELSE Lesser(own, IF HasPrompt(parsed, p)
                         THEN Lesser(expr_calc_value(rewrite_m(CondOfPrompt(parsed, p)), v), Above(p, v))
                         ELSE Above(p, v))
Written(i, v) == Lesser(expr_calc_value(rewrite_m(parsed.prop[i].cond), v), Above(parsed.prop[i].menu, v))

\* A property applies exactly when every condition written around it holds
\* (menu.c:344-412): without modules, whatever the rewritings did.
ConditionsInherited ==
    Finalized => \A i \in DOMAIN tree.prop : \A v \in WithoutModules :
        (tree.prop[i].menu # ROOT /\ tree.prop[i].type # "CHOICE") =>
            (expr_calc_value(tree.prop[i].cond, v) # no) = (Written(i, v) # no)

\* An entry moved into the submenu of a symbol is never visible where neither
\* that symbol is set nor its prompt visible: it would be out of reach.
SubmenuReachable ==
    Finalized => \A m \in Nodes \ {ROOT} : \A v \in WithoutModules :
        LET p == tree.menu[m].parent
        IN  tree.menu[p].sym # NoSym /\ ~IsChoice(tree, p) /\ HasPrompt(tree, m)
              => \/ expr_calc_value(CondOfPrompt(tree, m), v) = no
                 \/ expr_calc_value(CondOfPrompt(tree, p), v) # no
                 \/ v[tree.menu[p].sym].tri # no

\* What menu_finalize makes of the entries: the tree is well formed, each entry is in
\* its place and under the conditions written around it, and nothing it moved is out
\* of reach (menu.c:296-580).
TreeIsRight == TypeOK /\ EntriesKept /\ ConditionsInherited /\ SubmenuReachable

vars == <<rewrite_vars, tree_vars>>

NothingRewritten ==
    /\ written = [dep |-> Null, base |-> Null] /\ now = written
    /\ stage = "unused"

Init == \/ RewriteInit /\ rest = <<>> /\ TreeStart
        \/ NothingRewritten /\ TreeInit
Next == \/ RewriteNext /\ UNCHANGED tree_vars
        \/ stage = "unused" /\ TreeNext /\ UNCHANGED rewrite_vars
Spec == Init /\ [][Next]_vars
==================================================================================
