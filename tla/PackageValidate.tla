--------------------------- MODULE PackageValidate ---------------------------
(***************************************************************************)
(* PackageValidateService::package_validate (lib-co-repo/src/services/     *)
(* package_validate.rs): the check a software/use-case package passes     *)
(* before it is stored, and so before the task compiler ever sees it.     *)
(*                                                                         *)
(* The validator is a pure function of the manifest.  It is modelled by    *)
(* its verdict: "Ok" (a CommandPreview), "Err" (an anyhow error) or        *)
(* "Panic" (an unwrap).  The preview's contents, and which error message   *)
(* wins, are left out.  The verdict does not depend on HashMap order:     *)
(* every error of the input-slot and template loops ends the call before   *)
(* the output loop, whose order is the manifest's, and the sort check      *)
(* comes last.                                                             *)
(***************************************************************************)
EXTENDS UsecaseManifest

\* argument_format / environment_kv_format / the filesome input lookup:
\* the referenced material exists (ok_or(..)? otherwise).
MaterialExists(u, ref) ==
    CASE ref.t = "ArgRef"       -> ref.desc \in DOMAIN u.argMats
      [] ref.t = "EnvRef"       -> ref.desc \in DOMAIN u.envMats
      [] ref.t = "FileInputRef" -> ref.desc \in DOMAIN u.inMats
      [] OTHER                  -> TRUE

\* The ref_materials of every input slot.
InputRefsValid(u) ==
    \A k \in DOMAIN u.inputSlots : \A ref \in Range(u.inputSlots[k].refs) : MaterialExists(u, ref)

\* The templates of templates_kv_map: those a TemplateRef with keys names.
ReferencedTemplates(u) ==
    {ref.desc : ref \in {ref \in UNION {Range(u.inputSlots[k].refs) : k \in DOMAIN u.inputSlots} :
                           ref.t = "TemplateRef" /\ ref.keys # {}}}

\* A template ref: its material exists and it is not a TemplateRef (bail!).
TemplateRefValid(u, ref) == ref.t # "TemplateRef" /\ MaterialExists(u, ref)

\* The as_file_name of every template file, then, for every referenced
\* template, its template_files and template_file_infos entries and its
\* as_content.
TemplatesValid(u) ==
    /\ \A t \in DOMAIN u.templates : \A ref \in Range(u.templates[t].asFileName) : TemplateRefValid(u, ref)
    /\ \A t \in ReferencedTemplates(u) :
          /\ t \in DOMAIN u.templates
          /\ t \in DOMAIN u.tinfos
          /\ \A ref \in Range(u.templates[t].asContent) : TemplateRefValid(u, ref)

\* Mutant: the bail! on a CollectedOut origin is dropped.
FileOutVerdictNoCollectedCheck(u, d, checkAppointed) ==
    LET j == SelectInSeq(u.outputSlots, LAMBDA os : os.t = "File" /\ os.desc = d)
    IN IF j = 0 THEN "Panic" ELSE "Ok"

\* CollectFrom::FileOut(d): the first File output slot named d gives the
\* filesome output material; none leaves it None and .unwrap() panics.  In
\* the text-output branch an AppointedBy::InputSlot must name a text input
\* slot (the first slot with that descriptor decides).
FileOutVerdict(u, d, checkAppointed) ==
    LET j == SelectInSeq(u.outputSlots, LAMBDA os : os.t = "File" /\ os.desc = d)
        o == u.outputSlots[j].origin
        s == SelectInSeq(u.inputSlots, LAMBDA sl : sl.desc = o.by)
    IN CASE j = 0 -> "Panic"
         [] o.t = "Collected" -> "Err"
         [] o.mat \notin DOMAIN u.outMats -> "Err"
         [] checkAppointed /\ o.by # None /\ (s = 0 \/ u.inputSlots[s].kind = "File") -> "Err"
         [] OTHER -> "Ok"

\* One collected_out: it exists, its from resolves, its to has the kind.
CollectorVerdict(u, cd, kind, checkAppointed) ==
    LET col == u.collectors[cd]
        from == IF col.from.t = "FileOut" THEN FileOutVerdict(u, col.from.desc, checkAppointed) ELSE "Ok"
    IN CASE cd \notin DOMAIN u.collectors -> "Err"
         [] from # "Ok" -> from
         [] col.to.t # kind -> "Err"
         [] OTHER -> "Ok"

OutputSlotVerdict(u, os) ==
    CASE os.t = "Text" -> CollectorVerdict(u, os.col, "Text", TRUE)
      [] os.origin.t = "Collected" -> CollectorVerdict(u, os.origin.col, "File", FALSE)
      [] os.origin.mat \notin DOMAIN u.outMats -> "Err"
      [] OTHER -> "Ok"

\* The sorts of argument_formats_sorts: those of the ArgRefs of the input
\* slots and of the referenced templates (flag_arguments are not read).
ValidatedSorts(u) ==
    LET refs == UNION {Range(u.inputSlots[k].refs) : k \in DOMAIN u.inputSlots}
                \cup UNION {Range(u.templates[t].asContent) \cup Range(u.templates[t].asFileName) :
                              t \in ReferencedTemplates(u)}
    IN {ref.sort : ref \in {ref \in refs : ref.t = "ArgRef"}}

\* Sorted, the first sort is 0 and each next one is one more.
SortsContiguous(S) == S = 0..(Cardinality(S) - 1)

Verdict(u) ==
    LET outs == FoldLeft(LAMBDA v, os : IF v # "Ok" THEN v ELSE OutputSlotVerdict(u, os),
                         "Ok", u.outputSlots)
    IN CASE ~InputRefsValid(u) \/ ~TemplatesValid(u) -> "Err"
         [] outs # "Ok" -> outs
         [] ~SortsContiguous(ValidatedSorts(u)) -> "Err"
         [] OTHER -> "Ok"

=============================================================================
