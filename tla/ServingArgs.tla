---------------------------- MODULE ServingArgs -----------------------------
(***************************************************************************)
(* The serving arguments of a target (services/cr_adapter.py) and the      *)
(* body of PATCH /vllm-config (routers/vllm_config.py): what a change of   *)
(* tuning arguments or of resources leaves of the rest of the CR.          *)
(*                                                                         *)
(* An argument list is a sequence of tokens.  A word is any token without  *)
(* leading dashes, an option any flag the tuner does not own, an extended  *)
(* option one whose name begins with that of a tuning argument, and a json *)
(* token one that was quoted: split a second time it falls into pieces.    *)
(* Named lists (containers, env) are functions from names; the order of    *)
(* their items and of the tuning arguments is left out.                    *)
(***************************************************************************)
EXTENDS Integers, Sequences, FiniteSets, SequencesExt, FiniteSetsExt, Functions

CONSTANTS TuningKeys, \* _ARG_TO_KEY
          Empty,      \* the empty string
          Null        \* None, which removes a key in a merge patch

ASSUME ArgsAssumption == IsFiniteSet(TuningKeys) /\ Empty # Null

Bare(key) == [kind |-> "bare", key |-> key]
Assigned(key, value) == [kind |-> "assigned", key |-> key, value |-> value]
Word(value) == [kind |-> "word", value |-> value]
Option(name) == [kind |-> "option", value |-> name]
Extended(name) == [kind |-> "extended", value |-> name]
Json(pieces) == [kind |-> "json", pieces |-> pieces]

NoEntries == [name \in {} |-> Empty]
Entry(name, value) == [n \in {name} |-> value]

\* Two dictionaries in one, the first of which overrides the second: @@ of
\* TLC's module, of which the provers have no definition.
Over(new, old) ==
  [name \in DOMAIN new \cup DOMAIN old |-> IF name \in DOMAIN new THEN new[name] ELSE old[name]]

-----------------------------------------------------------------------------
(* Argument lists                                                          *)

Tunes(token) == token.kind \in {"bare", "assigned"}

\* TUNING_ARG_PREFIXES is compared with the beginning of a token.
Owned(token) == Tunes(token) \/ token.kind = "extended"

\* A flag without a value takes the next token, unless this is a flag.
TakesNext(args, i) ==
  /\ i \in DOMAIN args /\ args[i].kind = "bare"
  /\ i < Len(args) /\ args[i + 1].kind = "word"

Settings(args, key) ==
  {i \in DOMAIN args : /\ Tunes(args[i])
                       /\ args[i].key = key
                       /\ args[i].kind = "bare" => TakesNext(args, i)}

SettingAt(args, i) ==
  IF args[i].kind = "assigned" THEN args[i].value ELSE args[i + 1].value

\* args_list_to_config_dict: the last setting wins.
ArgsToConfig(args) ==
  [key \in {k \in TuningKeys : Settings(args, k) # {}} |->
     SettingAt(args, Max(Settings(args, key)))]

\* Mutant: a flag is dropped and the word it takes stays.
StripTuningWords(args) ==
  FlattenSeq([i \in DOMAIN args |-> IF Owned(args[i]) THEN <<>> ELSE <<args[i]>>])

\* strip_tuning_args: what is left is in its order.  An extended option is
\* dropped without the word it may take.
StripTuning(args) ==
  FlattenSeq([i \in DOMAIN args |->
                IF Owned(args[i]) \/ TakesNext(args, i - 1) THEN <<>> ELSE <<args[i]>>])

\* config_dict_to_args_list: an empty value removes the flag.
ConfigToArgs(config) ==
  LET keys == SetToSeq({k \in DOMAIN config : config[k] # Empty})
  IN [i \in DOMAIN keys |-> Assigned(keys[i], config[keys[i]])]

\* " ".join(...) and shlex.split: the quotes are gone after the first split.
Rejoined(args) ==
  FlattenSeq([i \in DOMAIN args |->
                IF args[i].kind = "json" THEN args[i].pieces ELSE <<args[i]>>])

Changed(args, new) == Over(new, ArgsToConfig(args))

\* build_args_patch of an InferenceService, whose CR holds a list, and of an
\* LLMInferenceService, whose CR holds one string.
BuildArgs(args, new) == StripTuning(args) \o ConfigToArgs(Changed(args, new))
BuildString(args, new) ==
  Rejoined(StripTuning(args)) \o ConfigToArgs(Changed(args, new))

-----------------------------------------------------------------------------
(* The CR of an LLMInferenceService: [container -> [env, resources]]       *)

Main == "main"
ArgsEnv == "VLLM_ADDITIONAL_ARGS"
NoContainer == [env |-> NoEntries, resources |-> NoEntries]

At(map, name, default) == IF name \in DOMAIN map THEN map[name] ELSE default

CurrentArgs(cr) == At(At(cr, Main, NoContainer).env, ArgsEnv, <<>>)

\* The sub-patches: each names the main container only.
ArgsPatch(cr, new) ==
  [env |-> Entry(ArgsEnv, BuildString(CurrentArgs(cr), new)), resources |-> NoEntries]

\* _validate_and_merge_resources: an empty quantity becomes None.
ResourcesPatch(resources) ==
  [env |-> NoEntries,
   resources |-> [tier \in {t \in DOMAIN resources : resources[t] # NoEntries} |->
     [key \in DOMAIN resources[tier] |->
        IF resources[tier][key] = Empty THEN Null ELSE resources[tier][key]]]]

\* _merge_into on a dictionary of values, and on one that is not there yet,
\* which takes the patch with its None's.
MergeValues(base, patch) ==
  [key \in {k \in DOMAIN base \cup DOMAIN patch : At(patch, k, Empty) # Null} |->
     Over(patch, base)[key]]

MergeTiers(base, patch) ==
  [tier \in DOMAIN base \cup DOMAIN patch |->
     IF tier \notin DOMAIN patch THEN base[tier]
     ELSE IF tier \notin DOMAIN base THEN patch[tier]
     ELSE MergeValues(base[tier], patch[tier])]

MergeContainer(base, patch) ==
  [env |-> Over(patch.env, base.env),
   resources |-> MergeTiers(base.resources, patch.resources)]

\* _expand_named_lists, then the API server, which replaces lists as a whole.
MergeContainers(cr, patch) ==
  Over(Entry(Main, MergeContainer(At(cr, Main, NoContainer), patch)), cr)

\* Mutant: every sub-patch is merged into the CR that was read.
PatchBodyFromCurrent(cr, subPatches) ==
  FoldLeft(LAMBDA body, patch : MergeContainers(cr, patch), cr, subPatches)

\* _build_patch_body: each sub-patch is merged into the working copy the
\* ones before it were merged into.
PatchBody(cr, subPatches) ==
  FoldLeft(LAMBDA working, patch : MergeContainers(working, patch), cr, subPatches)

\* PATCH /vllm-config with arguments and resources.
PatchConfig(cr, new, resources) ==
  PatchBody(cr, (IF new = NoEntries THEN <<>> ELSE <<ArgsPatch(cr, new)>>)
                \o (IF resources = NoEntries THEN <<>>
                    ELSE <<ResourcesPatch(resources)>>))

\* apply_args_to_cr, by which a trial and apply-best change the CR they
\* delete and create again.
ApplyArgs(cr, new) ==
  LET main == At(cr, Main, NoContainer)
  IN Over(Entry(Main, [main EXCEPT !.env = Over(ArgsPatch(cr, new).env, @)]), cr)
=============================================================================
