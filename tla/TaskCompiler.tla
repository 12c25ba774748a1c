----------------------------- MODULE TaskCompiler -----------------------------
(***************************************************************************)
(* The software-computing task compiler: SoftwareComputingUsecaseService:: *)
(* parse_task (kernel/src/services/use_cases/software_computing.rs) with   *)
(* get_content, argument_format, environment_kv_format and                 *)
(* get_template_file_result.                                               *)
(*                                                                         *)
(* parse_task is one sequential computation whose awaits (manifest fetch,  *)
(* text-storage reads, block-list and installed-software queries) only    *)
(* fail or return.  It is modelled as a process stepping through the       *)
(* code's loops: pass A (flag materials), pass B (one step per input       *)
(* slot), pass C (one step per referenced template, in HashMap order, so   *)
(* any order), outputs (one step per output slot), finalisation and the   *)
(* deployment decision.  Several copies (Runs) compile the same input side *)
(* by side, so that properties can compare two compilations.              *)
(*                                                                         *)
(* A panic (unwrap, todo!, unreachable!) ends a copy in pc "Panic"; a `?`  *)
(* on an external failure ends it in pc "Err".                             *)
(***************************************************************************)
EXTENDS PackageValidate

CONSTANTS
    Runs,           \* copies of the compilation
    Usecases,       \* the manifests a run may compile
    NodeSpecsFor(_), \* the node specs a manifest may be compiled for
    ValidatedOnly   \* compile only manifests package_validate accepts

VARIABLES
    uc,         \* the fetched manifest
    ns,         \* the node spec
    blocked,    \* software_block_list_repository answer
    satisfied,  \* installed_software_repository answer
    c           \* per run: pc and parse_task's locals

vars == <<uc, ns, blocked, satisfied, c>>

StdNone == [k |-> "None"]

Start == [pc |-> "Fetch", i |-> 1, argF |-> <<>>, envF |-> <<>>, files |-> <<>>,
          stdIn |-> StdNone, tkv |-> <<>>, tleft |-> {}, body |-> <<>>]

Panic(st) == [st EXCEPT !.pc = "Panic"]

\* Apply a failure outcome of a helper (pc "Panic" or "Err").
Fail(st, e) == [st EXCEPT !.pc = e]

\* F applied to st and each element of seq in turn, stopping at a panic.
FoldUnlessPanic(F(_, _), st, seq) ==
    FoldLeft(LAMBDA a, x : IF a.pc = "Panic" THEN a ELSE F(a, x), st, seq)

(***************************************************************************)
(* Materials.                                                              *)
(***************************************************************************)

\* argument_format / environment_kv_format: the material's value format with
\* no fills; .unwrap() on a missing material panics.
ArgFill(st, d, s, n, v) ==
    IF d \notin DOMAIN uc.argMats THEN Panic(st)
    ELSE LET e == IF s \in DOMAIN st.argF THEN st.argF[s]
                  ELSE [format |-> uc.argMats[d], fills |-> <<>>]
         IN [st EXCEPT !.argF = Put(st.argF, s, [e EXCEPT !.fills = Put(e.fills, n, v)])]

EnvFill(st, d, n, v) ==
    IF d \notin DOMAIN uc.envMats THEN Panic(st)
    ELSE LET k == uc.envMats[d].key
             e == IF k \in DOMAIN st.envF THEN st.envF[k]
                  ELSE [format |-> uc.envMats[d].format, fills |-> <<>>]
         IN [st EXCEPT !.envF = Put(st.envF, k, [e EXCEPT !.fills = Put(e.fills, n, v)])]

\* Mutant: a key already filled keeps its first value.
TemplateFillFirstWins(st, d, ks, v) ==
    IF ks = {} THEN st
    ELSE LET m == IF d \in DOMAIN st.tkv THEN st.tkv[d] ELSE <<>>
         IN [st EXCEPT !.tkv = Put(st.tkv, d, [k \in DOMAIN m \cup ks |-> IF k \in DOMAIN m THEN m[k] ELSE v])]

\* templates_kv_json.entry(desc).or_insert(..).insert(key, v), per ref key.
TemplateFill(st, d, ks, v) ==
    IF ks = {} THEN st
    ELSE LET m == IF d \in DOMAIN st.tkv THEN st.tkv[d] ELSE <<>>
         IN [st EXCEPT !.tkv = Put(st.tkv, d, [k \in DOMAIN m \cup ks |-> IF k \in ks THEN v ELSE m[k]])]

(***************************************************************************)
(* Pass A: flag_arguments and flag_environments, after the manifest fetch. *)
(***************************************************************************)
PassA(r) ==
    LET st == c[r]
        FlagArg(a, f) ==
            IF f[1] \notin DOMAIN uc.argMats THEN Panic(a)
            ELSE IF f[2] \in DOMAIN a.argF THEN a
            ELSE [a EXCEPT !.argF = Put(a.argF, f[2], [format |-> uc.argMats[f[1]], fills |-> <<>>])]
        FlagEnv(a, d) ==
            IF d \notin DOMAIN uc.envMats THEN Panic(a)
            ELSE IF uc.envMats[d].key \in DOMAIN a.envF THEN a
            ELSE [a EXCEPT !.envF = Put(a.envF, uc.envMats[d].key,
                                        [format |-> uc.envMats[d].format, fills |-> <<>>])]
        st2 == FoldUnlessPanic(FlagEnv, FoldUnlessPanic(FlagArg, st, uc.flagArgs), uc.flagEnvs)
    IN /\ st.pc = "Fetch"
       /\ c' = [c EXCEPT ![r] = IF st2.pc = "Panic" THEN st2 ELSE [st2 EXCEPT !.pc = "B"]]
       /\ UNCHANGED <<uc, ns, blocked, satisfied>>

(***************************************************************************)
(* Pass B: per input slot, get_content then its ref_materials.             *)
(***************************************************************************)

\* get_content(node_spec, descriptor): Ok(None) for an empty optional slot;
\* an empty required slot reaches contents.unwrap() and panics.  A text
\* literal joins the stored texts with " "; a file literal joins the
\* effective names (expected_file_name, else the metadata name).
GetContent(d) ==
    LET sl == ns.slots[d] IN
    IF d \notin DOMAIN ns.slots THEN Err("Panic")
    ELSE IF sl.contents = None /\ sl.optional THEN Ok(None)
    ELSE IF sl.contents = None THEN Err("Panic")
    ELSE IF sl.kind = "Text" THEN Ok([literal |-> JoinSp(sl.contents), infiles |-> <<>>])
    ELSE LET name(x) == IF sl.expected # None THEN sl.expected ELSE x.name
         IN Ok([literal |-> JoinSp([k \in DOMAIN sl.contents |-> name(sl.contents[k])]),
                infiles |-> [k \in DOMAIN sl.contents |->
                               [t |-> "Input", path |-> name(sl.contents[k]), pkg |-> sl.isBatch,
                                form |-> [id |-> sl.contents[k].id]]]])

\* One ref_material of a slot of kind `kind` with literal v (None if empty).
RouteB(st, ref, v, kind) ==
    CASE ref.t = "ArgRef"       -> ArgFill(st, ref.desc, ref.sort, ref.nth, v)
      [] ref.t = "EnvRef"       -> EnvFill(st, ref.desc, ref.nth, v)
      [] ref.t = "StdIn" /\ kind = "Text" ->
            IF v = None THEN Panic(st) ELSE [st EXCEPT !.stdIn = [k |-> "Text", text |-> v]]
      [] ref.t = "StdIn"        ->
            [st EXCEPT !.stdIn = IF v = None THEN StdNone ELSE [k |-> "File", path |-> v]]
      [] ref.t = "TemplateRef"  -> TemplateFill(st, ref.desc, ref.keys, v)
      [] ref.t = "FileInputRef" -> st

PassB(r) ==
    LET st == c[r]
        s == uc.inputSlots[st.i]
        ct == GetContent(s.desc)
        st1 == IF ct.val = None THEN st ELSE [st EXCEPT !.files = @ \o ct.val.infiles]
        v == IF ct.val = None THEN None ELSE ct.val.literal
        Route(a, ref) == RouteB(a, ref, v, s.kind)
        st2 == FoldUnlessPanic(Route, st1, s.refs)
    IN /\ st.pc = "B"
       /\ st.i <= Len(uc.inputSlots)
       /\ c' = [c EXCEPT ![r] = IF ~ct.ok THEN Panic(st)
                                ELSE IF st2.pc = "Panic" THEN st2
                                ELSE [st2 EXCEPT !.i = @ + 1]]
       /\ UNCHANGED <<uc, ns, blocked, satisfied>>

PassBEnd(r) ==
    /\ c[r].pc = "B"
    /\ c[r].i > Len(uc.inputSlots)
    /\ c' = [c EXCEPT ![r].pc = "C", ![r].tleft = DOMAIN c[r].tkv]
    /\ UNCHANGED <<uc, ns, blocked, satisfied>>

(***************************************************************************)
(* Pass C: per entry of templates_kv_json, in HashMap iteration order.     *)
(***************************************************************************)
PassC(r, t) ==
    LET st == c[r]
        tf == uc.templates[t]
        info == uc.tinfos[t]
        rendered == Render(info.content, st.tkv[t])
        AsContent(a, ref) ==
            CASE ref.t = "ArgRef" -> ArgFill(a, ref.desc, ref.sort, ref.nth, rendered)
              [] ref.t = "EnvRef" -> EnvFill(a, ref.desc, ref.nth, rendered)
              [] ref.t = "StdIn"  -> [a EXCEPT !.stdIn = [k |-> "Text", text |-> rendered]]
              [] OTHER            -> Panic(a)                      \* todo!()
        AsFileName(a, ref) ==
            CASE ref.t = "ArgRef" -> ArgFill(a, ref.desc, ref.sort, ref.nth, info.fileName)
              [] ref.t = "EnvRef" -> EnvFill(a, ref.desc, ref.nth, info.fileName)
              [] ref.t = "StdIn"  -> [a EXCEPT !.stdIn = [k |-> "File", path |-> info.fileName]]
              [] ref.t = "FileInputRef" ->
                    IF ref.desc \notin DOMAIN uc.inMats THEN Panic(a)
                    ELSE [a EXCEPT !.files = @ \o <<[t |-> "Input", path |-> uc.inMats[ref.desc].path,
                                                     pkg |-> uc.inMats[ref.desc].kind = "Batched",
                                                     form |-> [content |-> rendered]]>>]
              [] OTHER -> Panic(a)                                 \* todo!()
        onlyInputRef == Len(tf.asFileName) = 1 /\ tf.asFileName[1].t = "FileInputRef"
        st1 == FoldUnlessPanic(AsContent, st, tf.asContent)
        st2 == IF tf.asFileName = <<>> \/ onlyInputRef THEN st1
               ELSE [st1 EXCEPT !.files = @ \o <<[t |-> "Input", path |-> info.fileName, pkg |-> FALSE,
                                                  form |-> [content |-> rendered]]>>]
        st3 == FoldUnlessPanic(AsFileName, st2, tf.asFileName)
    IN /\ st.pc = "C"
       /\ t \in st.tleft
       /\ c' = [c EXCEPT ![r] =
                  IF t \notin DOMAIN uc.templates \/ t \notin DOMAIN uc.tinfos THEN Panic(st)
                  ELSE IF st3.pc = "Panic" THEN st3
                  ELSE [st3 EXCEPT !.tleft = @ \ {t}]]
       /\ UNCHANGED <<uc, ns, blocked, satisfied>>

PassCEnd(r) ==
    /\ c[r].pc = "C"
    /\ c[r].tleft = {}
    /\ c' = [c EXCEPT ![r].pc = "Out", ![r].i = 1]
    /\ UNCHANGED <<uc, ns, blocked, satisfied>>

(***************************************************************************)
(* Outputs.                                                                *)
(***************************************************************************)

\* AppointedBy::InputSlot: the first text of the appointed input slot,
\* node_spec.input_slot(..) then contents.unwrap().get(0).unwrap() and a
\* text-storage read; a non-text slot is unreachable!().
AppointedPath(d) ==
    LET sl == ns.slots[d] IN
    IF d \notin DOMAIN ns.slots \/ sl.kind # "Text" THEN Err("Panic")
    ELSE IF sl.contents = None \/ sl.contents = <<>> THEN Err("Panic")
    ELSE Ok(sl.contents[1])

\* The path of a UsecaseOut file output: the appointed text, else the
\* filesome output material's wildcard (its find(..).unwrap() comes first).
UsecaseOutPath(o) ==
    IF o.mat \notin DOMAIN uc.outMats THEN Err("Panic")
    ELSE IF o.by = None THEN Ok(uc.outMats[o.mat].path)
    ELSE AppointedPath(o.by)

\* The origin of the first File output slot with descriptor d, or None.
FileSlotOrigin(d) ==
    LET j == SelectInSeq(uc.outputSlots, LAMBDA os : os.t = "File" /\ os.desc = d)
    IN IF j = 0 THEN None ELSE uc.outputSlots[j].origin

\* RepoCollectFrom -> CollectFrom: FileOut's path is String::default() when
\* no File output slot has the descriptor; a CollectedOut origin is todo!().
CollectFromOf(from) ==
    LET o == FileSlotOrigin(from.desc) IN
    IF from.t # "FileOut" THEN Ok([t |-> from.t])
    ELSE IF o = None THEN Ok([t |-> "FileOut", path |-> <<>>])
    ELSE IF o.t = "Collected" THEN Err("Panic")
    ELSE LET p == UsecaseOutPath(o)
         IN IF p.ok THEN Ok([t |-> "FileOut", path |-> p.val]) ELSE p

\* all_tasks_{text,file}_outputs()?.get(0).unwrap() of the node's output slot.
FirstOutId(d, kind) ==
    IF d \notin DOMAIN ns.outs THEN Err("Panic")
    ELSE IF ns.outs[d].kind # kind THEN Err("Err")
    ELSE IF ns.outs[d].ids = <<>> THEN Err("Panic")
    ELSE Ok(ns.outs[d].ids[1])

\* A collected_outs entry pushed to the body, collecting into `kind`.
Collect(st, os, cd, kind) ==
    LET col == uc.collectors[cd]
        from == CollectFromOf(col.from)
        id == FirstOutId(os.desc, kind)
        to == IF kind = "Text" THEN [t |-> "Text", id |-> id.val]
              ELSE [t |-> "File", path |-> col.to.path, id |-> id.val]
    IN IF cd \notin DOMAIN uc.collectors THEN Panic(st)
       ELSE IF ~from.ok THEN Fail(st, from.val)
       ELSE IF col.to.t # kind THEN Panic(st)                   \* unreachable!()
       ELSE IF ~id.ok THEN Fail(st, id.val)
       ELSE [st EXCEPT !.body = @ \o <<[t |-> "Collected", from |-> from.val,
                                        to |-> to, optional |-> os.optional]>>]

\* One output slot of usecase_spec.output_slots.
OutputSlotStep(st, os) ==
    LET p == UsecaseOutPath(os.origin)
        id == FirstOutId(os.desc, "File")
    IN CASE os.t = "Text" -> Collect(st, os, os.col, "Text")
         [] os.desc \notin DOMAIN ns.outs -> Panic(st)           \* node_spec.output_slot
         [] os.origin.t = "Collected" -> Collect(st, os, os.origin.col, "File")
         [] ~p.ok -> Fail(st, p.val)
         [] ~id.ok -> Fail(st, id.val)
         [] OTHER -> [st EXCEPT !.files = @ \o <<[t |-> "Output", id |-> id.val, path |-> p.val,
                                                  pkg |-> uc.outMats[os.origin.mat].kind = "Batched",
                                                  optional |-> os.optional]>>]

OutputStep(r) ==
    LET st == c[r]
        st2 == OutputSlotStep(st, uc.outputSlots[st.i])
    IN /\ st.pc = "Out"
       /\ st.i <= Len(uc.outputSlots)
       /\ c' = [c EXCEPT ![r] = IF st2.pc = "Out" THEN [st2 EXCEPT !.i = @ + 1] ELSE st2]
       /\ UNCHANGED <<uc, ns, blocked, satisfied>>

(***************************************************************************)
(* Finalisation and the deployment decision.                               *)
(***************************************************************************)

\* Mutant: the fills are applied in descending placeholder_nth order.
RenderFormatFillDescending(ff) ==
    FoldLeft(LAMBDA f, n : Replacen(f, IF ff.fills[n] = None THEN <<>> ELSE ff.fills[n]),
             ff.format, SetToSortSeq(DOMAIN ff.fills, >))

\* A FormatFill rendered: format.replacen("{{}}", fill or "", 1) for each
\* fill in placeholder_nth order.
RenderFormatFill(ff) ==
    FoldLeft(LAMBDA f, n : Replacen(f, IF ff.fills[n] = None THEN <<>> ELSE ff.fills[n]),
             ff.format, SetToSortSeq(DOMAIN ff.fills, <))

Execution(st) ==
    LET sorts == SetToSortSeq(DOMAIN st.argF, <)
    IN [t |-> "Exec",
        args |-> [k \in 1..Len(sorts) |-> RenderFormatFill(st.argF[sorts[k]])],
        envs |-> [k \in DOMAIN st.envF |-> RenderFormatFill(st.envF[k])],
        files |-> st.files, stdIn |-> st.stdIn]

\* Mutant: the UsecaseExecution is pushed after the collected outputs.
FinalizeAppend(r) ==
    /\ c[r].pc = "Out"
    /\ c[r].i > Len(uc.outputSlots)
    /\ c' = [c EXCEPT ![r].body = @ \o <<Execution(c[r])>>, ![r].pc = "Blocked"]
    /\ UNCHANGED <<uc, ns, blocked, satisfied>>

\* Sort the argument formats, render them and the environments, and insert
\* the UsecaseExecution at index 0 of the body.
Finalize(r) ==
    /\ c[r].pc = "Out"
    /\ c[r].i > Len(uc.outputSlots)
    /\ c' = [c EXCEPT ![r].body = <<Execution(c[r])>> \o @, ![r].pc = "Blocked"]
    /\ UNCHANGED <<uc, ns, blocked, satisfied>>

\* !is_software_version_blocked(..).await? && is_software_satisfied(..).await?
\* (short-circuit: a blocked software is not asked about).
CheckBlocked(r) ==
    /\ c[r].pc = "Blocked"
    /\ c' = [c EXCEPT ![r].pc = IF blocked THEN "Done" ELSE "Satisfied"]
    /\ UNCHANGED <<uc, ns, blocked, satisfied>>

CheckSatisfied(r) ==
    /\ c[r].pc = "Satisfied"
    /\ c' = [c EXCEPT ![r].pc = "Done",
                      ![r].body = IF satisfied THEN <<[t |-> "Deploy"]>> \o @ ELSE @]
    /\ UNCHANGED <<uc, ns, blocked, satisfied>>

(***************************************************************************)
(* External failures: an awaited call returns Err and `?` ends parse_task. *)
(***************************************************************************)

\* A UsecaseOut origin whose path is read from text storage.
PathReads(o) == o.mat \in DOMAIN uc.outMats /\ o.by # None /\ AppointedPath(o.by).ok

\* The output step of slot os reaches a text-storage read.
OutputReads(os) ==
    LET cd == IF os.t = "Text" THEN os.col ELSE os.origin.col
        o == FileSlotOrigin(uc.collectors[cd].from.desc)
        viaCollector == /\ cd \in DOMAIN uc.collectors
                        /\ uc.collectors[cd].from.t = "FileOut"
                        /\ o # None /\ o.t = "Usecase" /\ PathReads(o)
    IN IF os.t = "Text" THEN viaCollector
       ELSE /\ os.desc \in DOMAIN ns.outs
            /\ IF os.origin.t = "Collected" THEN viaCollector ELSE PathReads(os.origin)

Awaiting(st) ==
    \/ st.pc \in {"Fetch", "Blocked", "Satisfied"}
    \/ /\ st.pc = "B" /\ st.i <= Len(uc.inputSlots)
       /\ LET d == uc.inputSlots[st.i].desc
          IN d \in DOMAIN ns.slots /\ ns.slots[d].kind = "Text"
             /\ ns.slots[d].contents \notin {None, <<>>}
    \/ st.pc = "Out" /\ st.i <= Len(uc.outputSlots) /\ OutputReads(uc.outputSlots[st.i])

ExternalFails(r) ==
    /\ Awaiting(c[r])
    /\ c' = [c EXCEPT ![r].pc = "Err"]
    /\ UNCHANGED <<uc, ns, blocked, satisfied>>

(***************************************************************************)
(* Specification.                                                          *)
(***************************************************************************)
Init ==
    /\ uc \in {u \in Usecases : ValidatedOnly => Verdict(u) = "Ok"}
    /\ ns \in NodeSpecsFor(uc)
    /\ blocked \in BOOLEAN
    /\ satisfied \in BOOLEAN
    /\ c = [r \in Runs |-> Start]

Next ==
    \E r \in Runs :
        \/ PassA(r)
        \/ PassB(r)
        \/ PassBEnd(r)
        \/ \E t \in TDescs : PassC(r, t)
        \/ PassCEnd(r)
        \/ OutputStep(r)
        \/ Finalize(r)
        \/ CheckBlocked(r)
        \/ CheckSatisfied(r)
        \/ ExternalFails(r)

Spec == Init /\ [][Next]_vars


(***************************************************************************)
(* Properties.                                                             *)
(***************************************************************************)

Done(r) == c[r].pc = "Done"
ExecOf(r) == CHOOSE e \in Range(c[r].body) : e.t = "Exec"

\* The compiled body (spec section 2): an optional SoftwareDeployment, then
\* exactly one UsecaseExecution, then one CollectedOut per output slot that
\* collects (every text output slot and every CollectedOut file slot).
TaskBodyShape ==
    \A r \in Runs : Done(r) =>
        LET b == c[r].body
            d == IF b # <<>> /\ b[1].t = "Deploy" THEN 1 ELSE 0
            collecting == {j \in DOMAIN uc.outputSlots :
                             uc.outputSlots[j].t = "Text" \/ uc.outputSlots[j].origin.t = "Collected"}
        IN /\ Len(b) = d + 1 + Cardinality(collecting)
           /\ b[d + 1].t = "Exec"
           /\ \A k \in (d + 2)..Len(b) : b[k].t = "Collected"

\* The rendering of spec section 4.4.4: the placeholder of rank j in the
\* material's value format receives fill j (None renders empty); a
\* placeholder with no fill stays as it is.
SpecRender(ff) ==
    LET f == ff.format
        rank(k) == Cardinality({i \in 1..(k - 1) : f[i] = PH})
        piece(k) == IF f[k] = PH /\ rank(k) \in DOMAIN ff.fills
                    THEN IF ff.fills[rank(k)] = None THEN <<>> ELSE ff.fills[rank(k)]
                    ELSE <<f[k]>>
    IN FlattenSeq([k \in DOMAIN f |-> piece(k)])

\* Every argument and environment value of the UsecaseExecution is its
\* format with each placeholder replaced by the fill of its own index, in
\* sort order; the code instead replaces the first remaining "{{}}" once
\* per fill, in index order.
ArgumentsRenderedBySpec ==
    \A r \in Runs : Done(r) =>
        LET sorts == SetToSortSeq(DOMAIN c[r].argF, <)
        IN /\ ExecOf(r).args = [k \in 1..Len(sorts) |-> SpecRender(c[r].argF[sorts[k]])]
           /\ ExecOf(r).envs = [k \in DOMAIN c[r].envF |-> SpecRender(c[r].envF[k])]

\* The literal of an input slot as spec section 4.4.2 defines it.
SpecLiteral(d) ==
    LET sl == ns.slots[d] IN
    IF sl.contents = None THEN <<>>
    ELSE IF sl.kind = "Text" THEN JoinSp(sl.contents)
    ELSE JoinSp([k \in DOMAIN sl.contents |->
                   IF sl.expected # None THEN sl.expected ELSE sl.contents[k].name])

\* The template t rendered as spec section 4.4.2 defines it: "{{key}}" is
\* substituted by the literal of the last input slot that fills the key,
\* and renders empty when no slot does.
SpecTemplateText(t) ==
    LET Fills(k, key) == \E ref \in Range(uc.inputSlots[k].refs) :
                           ref.t = "TemplateRef" /\ ref.desc = t /\ key \in ref.keys
        Value(key) == LET ks == {k \in DOMAIN uc.inputSlots : Fills(k, key)}
                      IN IF ks = {} THEN <<>> ELSE SpecLiteral(uc.inputSlots[Max(ks)].desc)
        content == uc.tinfos[t].content
    IN FlattenSeq([k \in DOMAIN content |->
                     IF IsHole(content[k]) THEN Value(content[k].key) ELSE <<content[k].w>>])

\* Scenario 6: a template whose as_content is StdIn, the only template that
\* binds std_in, gives std_in = Text{the substituted template}.
TemplateRenderedBySpec ==
    \A r \in Runs : Done(r) =>
        \A t \in DOMAIN c[r].tkv :
            LET binds(u) == \E ref \in Range(uc.templates[u].asContent) \cup Range(uc.templates[u].asFileName) :
                              ref.t = "StdIn"
            IN (StdInRef \in Range(uc.templates[t].asContent)
                /\ \A u \in DOMAIN c[r].tkv \ {t} : ~binds(u))
                  => ExecOf(r).stdIn = [k |-> "Text", text |-> SpecTemplateText(t)]

\* The task without the order of its files.
Canonical(b) == [k \in DOMAIN b |-> IF b[k].t = "Exec" THEN [b[k] EXCEPT !.files = Range(@)] ELSE b[k]]

\* Spec section 5: compilation is pure in the manifest and the node spec,
\* so two compilations of the same input give the same task (up to the
\* order of its files), whatever the HashMap order of templates_kv_json.
CompileDeterministic ==
    \A r1, r2 \in Runs : Done(r1) /\ Done(r2) => Canonical(c[r1].body) = Canonical(c[r2].body)

=============================================================================
