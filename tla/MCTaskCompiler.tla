---------------------------- MODULE MCTaskCompiler ----------------------------
(* Instantiates TaskCompiler for TLC.  One manifest shape: a text input    *)
(* slot s1, a file input slot s2, argument materials a1 ("n{{}}") and a2   *)
(* ("{{}} {{}}"), environment material e1 (K = "x{{}}"), templates t1      *)
(* ("x={{k1}}") and t2 ("{{k1}}"), one filesome input m1, one filesome     *)
(* output mo, collectors c1 (to Text) and c2 (Stderr to File), output      *)
(* slots o1 (text) and o2 (file).  The sets below vary what the passes     *)
(* branch on: which refs each slot and template has, flags, material       *)
(* kinds and the output slots.                                             *)
EXTENDS TaskCompiler

CONSTANTS a1, a2, e1, K, t1, t2, k1, m1, mo, c1, c2, s1, s2, o1, o2, i1, i2, f1, r1, r2

MkUsecase(flags, refs1, refs2, tmpl, inKind, from, outs) ==
    [argMats |-> (a1 :> <<"n", PH>>) @@ (a2 :> <<PH, "sp", PH>>),
     envMats |-> e1 :> [key |-> K, format |-> <<"x", PH>>],
     flagArgs |-> flags,
     flagEnvs |-> <<e1>>,
     inputSlots |-> <<[desc |-> s1, kind |-> "Text", refs |-> refs1],
                      [desc |-> s2, kind |-> "File", refs |-> refs2]>>,
     templates |-> tmpl,
     tinfos |-> (t1 :> [fileName |-> <<"in">>, content |-> <<Lit("x"), Lit("eq"), Hole(k1)>>])
                @@ (t2 :> [fileName |-> <<"a">>, content |-> <<Hole(k1)>>]),
     inMats |-> m1 :> [kind |-> inKind, path |-> <<"in">>],
     outMats |-> mo :> [kind |-> "Batched", path |-> <<"out">>],
     collectors |-> (c1 :> [from |-> from, to |-> [t |-> "Text"]])
                    @@ (c2 :> [from |-> [t |-> "Stderr"], to |-> [t |-> "File", path |-> <<"log">>]]),
     outputSlots |-> outs]

Tmpl(ac, afn) == (t1 :> [asContent |-> ac, asFileName |-> afn])
                 @@ (t2 :> [asContent |-> <<StdInRef>>, asFileName |-> <<>>])

\* Node specs built for a manifest: s1 bound to the texts tc (None when
\* empty), s2 bound to one file, optionally under an expected name.
MkNodeSpecs(tcs, optional1) ==
    {[slots |-> (s1 :> [kind |-> "Text", optional |-> optional1, contents |-> tc,
                        expected |-> None, isBatch |-> FALSE])
                @@ (s2 :> [kind |-> "File", optional |-> FALSE, contents |-> <<[id |-> f1, name |-> <<"a">>]>>,
                           expected |-> ex, isBatch |-> FALSE]),
      outs |-> (o1 :> [kind |-> "Text", ids |-> <<i1>>]) @@ (o2 :> [kind |-> "File", ids |-> <<i2>>])]
     : tc \in tcs, ex \in {None, <<"in">>}}

\* Every placeholder index a sort is filled at runs from 0 without a gap.
NthContiguous(u) ==
    LET refs == UNION {Range(u.inputSlots[k].refs) : k \in DOMAIN u.inputSlots}
                \cup UNION {Range(u.templates[t].asContent) \cup Range(u.templates[t].asFileName) :
                              t \in ReferencedTemplates(u)}
        args == {ref \in refs : ref.t = "ArgRef"}
    IN \A s \in {ref.sort : ref \in args} :
          SortsContiguous({ref.nth : ref \in {x \in args : x.sort = s}})

(***************************************************************************)
(* compile_validated: every combination, kept when the validator accepts  *)
(* it and its placeholder indices have no gap.                            *)
(***************************************************************************)
PassUsecases ==
    {u \in {MkUsecase(flags, refs1, refs2, Tmpl(ac, afn), inKind, from, outs) :
              flags \in {<<>>, <<<<a1, 0>>>>},
              refs1 \in {<<ArgRef(a1, 0, 0)>>, <<StdInRef>>, <<TemplateRef(t1, {k1})>>,
                         <<ArgRef(a2, 1, 0), ArgRef(a1, 0, 0), TemplateRef(t2, {k1})>>, <<EnvRef(e1, 0), ArgRef(a1, 0, 0)>>},
              refs2 \in {<<>>, <<ArgRef(a2, 1, 1)>>, <<FileInputRef(m1), StdInRef>>,
                         <<ArgRef(a1, 0, 0), TemplateRef(t1, {k1})>>},
              ac \in {<<>>, <<StdInRef>>, <<ArgRef(a2, 1, 0)>>},
              afn \in {<<>>, <<FileInputRef(m1)>>, <<EnvRef(e1, 0)>>},
              inKind \in {"Normal", "Batched"},
              from \in {[t |-> "Stdout"], [t |-> "FileOut", desc |-> o2]},
              outs \in {<<>>, <<TextOut(o1, c1, FALSE), FileUsecase(o2, mo, None, FALSE)>>,
                        <<FileCollected(o2, c2, TRUE), TextOut(o1, c1, TRUE)>>,
                        <<TextOut(o1, c1, FALSE), FileUsecase(o2, mo, s1, TRUE)>>}}
       : NthContiguous(u)}

PassNodeSpecs(u) == MkNodeSpecs({<<<<"w">>>>, <<<<"w">>, <<"n">>>>}, FALSE)


(***************************************************************************)
(* Single inputs for the runs that meet a disagreement.                    *)
(***************************************************************************)
Stdout == [t |-> "Stdout"]
NoTemplates == Tmpl(<<>>, <<>>)

\* compile_optional_stdin: s1 is optional, left empty, and bound to std_in.
OptionalStdInUsecases == {MkUsecase(<<>>, <<StdInRef>>, <<ArgRef(a1, 0, 0)>>, NoTemplates, "Normal", Stdout, <<>>)}
OptionalNodeSpecs(u) == MkNodeSpecs({None}, TRUE)

\* compile_placeholder_injection: a2's first placeholder is filled from s1,
\* whose text is "{{}}", its second from s2's file name.
InjectionUsecases == {MkUsecase(<<>>, <<ArgRef(a2, 1, 0)>>, <<ArgRef(a1, 0, 0), ArgRef(a2, 1, 1)>>,
                                NoTemplates, "Normal", Stdout, <<>>)}
InjectionNodeSpecs(u) == MkNodeSpecs({<<<<PH>>>>}, FALSE)

\* compile_template_order: s1 fills t1 and t2, both bound to std_in.
TemplateOrderUsecases == {MkUsecase(<<>>, <<TemplateRef(t1, {k1}), TemplateRef(t2, {k1}), ArgRef(a1, 0, 0)>>,
                                    <<>>, Tmpl(<<StdInRef>>, <<>>), "Normal", Stdout, <<>>)}

SingleNodeSpecs(u) == MkNodeSpecs({<<<<"w">>>>}, FALSE)

=============================================================================
