--------------------------- MODULE UsecaseManifest ---------------------------
(***************************************************************************)
(* The data shared by the task compiler (kernel/src/services/use_cases/    *)
(* software_computing.rs) and the package validator (lib-co-repo/src/      *)
(* services/package_validate.rs): a software-computing use case manifest   *)
(* (usecase_spec with its materials), the node spec's slots, and the two   *)
(* string conversions the compiler applies.                                *)
(*                                                                         *)
(* A string is a sequence of tokens: "PH" is the placeholder text "{{}}",  *)
(* "eq" a character Handlebars escapes ('=', '<', '&', ...), "esc" its     *)
(* escaped form, "sp" a space, and any other token a plain word.           *)
(* Descriptors, keys and ids are model values.                             *)
(***************************************************************************)
EXTENDS Naturals, Sequences, FiniteSets, SequencesExt, TLC

CONSTANTS
    ArgDescs,       \* argument material descriptors
    EnvDescs,       \* environment material descriptors
    EnvKeys,        \* environment variable names
    TDescs,         \* template file descriptors
    TKeys,          \* template keys ({{key}} in a template)
    InMats,         \* filesome input material descriptors
    OutMats,        \* filesome output material descriptors
    Collectors,     \* collected_out descriptors
    SlotDescs,      \* input slot descriptors
    OutDescs,       \* output slot descriptors
    OutIds,         \* ids of the node spec's output slots
    Words,          \* plain word tokens
    None

PH == "PH"
Str == Seq(Words \cup {PH, "eq", "esc", "sp"})

(***************************************************************************)
(* Manifest references (TextRef / FileRef of lib_co_repo).                 *)
(***************************************************************************)
ArgRef(d, s, n) == [t |-> "ArgRef", desc |-> d, sort |-> s, nth |-> n]
EnvRef(d, n) == [t |-> "EnvRef", desc |-> d, nth |-> n]
StdInRef == [t |-> "StdIn"]
TemplateRef(d, ks) == [t |-> "TemplateRef", desc |-> d, keys |-> ks]
FileInputRef(m) == [t |-> "FileInputRef", desc |-> m]

\* Output slots: a Text slot collects through collector col; a File slot's
\* origin is CollectedOut(col) or UsecaseOut of material mat, appointed by
\* the Material (by = None) or by the text input slot `by`.
TextOut(d, col, opt) == [t |-> "Text", desc |-> d, col |-> col, optional |-> opt]
FileCollected(d, col, opt) == [t |-> "File", desc |-> d, origin |-> [t |-> "Collected", col |-> col], optional |-> opt]
FileUsecase(d, m, by, opt) == [t |-> "File", desc |-> d, origin |-> [t |-> "Usecase", mat |-> m, by |-> by], optional |-> opt]

(***************************************************************************)
(* String conversions.                                                     *)
(***************************************************************************)

\* str::replacen(format, "{{}}", x, 1): the first placeholder is replaced.
Replacen(format, x) ==
    LET i == SelectInSeq(format, LAMBDA tk : tk = PH)
    IN IF i = 0 THEN format
       ELSE SubSeq(format, 1, i - 1) \o x \o SubSeq(format, i + 1, Len(format))

\* Handlebars' default escape of a rendered value.
Escape(v) == [k \in DOMAIN v |-> IF v[k] = "eq" THEN "esc" ELSE v[k]]

\* Template content is a sequence of literal tokens Lit(w) and holes Hole(k).
Lit(w) == [w |-> w]
Hole(k) == [key |-> k]
IsHole(x) == "key" \in DOMAIN x

\* Handlebars::render of a template content with kv_json: every {{key}} hole
\* becomes the escaped value; a key that is absent or null renders empty.
Render(content, kv) ==
    LET Piece(x) == IF ~IsHole(x) THEN <<x.w>>
                    ELSE IF x.key \in DOMAIN kv /\ kv[x.key] # None THEN Escape(kv[x.key])
                    ELSE <<>>
    IN FoldLeft(LAMBDA acc, x : acc \o Piece(x), <<>>, content)

\* Vec<String>::join(" ")
JoinSp(ss) == IF ss = <<>> THEN <<>>
              ELSE FoldLeft(LAMBDA acc, s : acc \o <<"sp">> \o s, Head(ss), Tail(ss))

\* Insert or overwrite key k of a map.
Put(f, k, v) == (k :> v) @@ f

\* An outcome: a value, or the failure ("Panic" or "Err") that ended it.
Ok(v) == [ok |-> TRUE, val |-> v]
Err(e) == [ok |-> FALSE, val |-> e]

=============================================================================
