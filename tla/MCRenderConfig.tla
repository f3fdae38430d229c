---------------------------- MODULE MCRenderConfig ----------------------------
(***************************************************************************)
(* Underrides, a file of the user and overrides, over two keys, one of     *)
(* them in the list of those whose arrays are overwritten; and, with one   *)
(* such set of files, the start of the component together with PostgreSQL. *)
(***************************************************************************)
EXTENDS Startup, DeepMerge

CONSTANTS UNSET, secret1, secret2

S(x) == [scalar |-> x]
L(x) == [list |-> << x >>]
M(f) == [map |-> f]
V(x) == [var |-> x]

\* Documents that hold one value.
One(key, value) == [k \in {key} |-> value]
Two(value1, value2) == [k \in {"permissions", "x"} |->
                          IF k = "x" THEN value2 ELSE value1]

\* A value of each kind, with the name of an overwritten array below, too.
Kinds(i) ==
  {S(i), L(i), M(EmptyDocument), M(One("permissions", L(i))), M(One("x", S(i))),
   M(One("x", M(One("permissions", L(i)))))}

MCSources ==
  << {Two(L("u"), M(One("permissions", L("u")))), Two(S("u"), L("u"))},
     {Two(L("user"), w) : w \in Kinds("user")}
       \cup {One("permissions", S("user")),
             One("permissions", M(One("permissions", L("user"))))}
       \cup {EmptyDocument, Invalid, Missing},
     {Two(L("o"), V(PASSWORD)), One("x", M(One("x", V(PASSWORD)))),
      One("x", M(One("permissions", L("o")))), One("x", L("o")),
      One("permissions", V(UNSET))} >>

\* Files of which the last has the password.
Plain == << Two(S("u"), L("u")), EmptyDocument,
            One("x", M(One("x", V(PASSWORD)))) >>

\* One key more than the deepest document has.
MCPaths == UNION {[1..n -> {"permissions", "x"}] : n \in 1..4}

\* Either any files, with a database in service, or these and the database
\* starts together with the component.  Of two secrets either may be the
\* first one.
MCInit ==
  /\ StartupInit
  /\ secrets[PASSWORD] # secret2
  /\ \/ InService /\ ~ hashed /\ crashes = MaxCrashes /\ mounted # Plain
     \/ /\ StartTogether /\ role # Missing /\ crashes = 0
        /\ mounted = Plain

MCNext == StartupNext /\ (mounted = Plain => UNCHANGED <<mounted, faults>>)

MCSpec == MCInit /\ [][MCNext]_allVars /\ StartupFairness
===============================================================================
