---------------------------- MODULE ModelRegistry ----------------------------
(***************************************************************************)
(* The model registry: which adapter runs a model.  Built-in entries are   *)
(* in memory, onboarded ones in custom_models.json too; a model that is in *)
(* neither is classified by the type its configuration on the hub gives.   *)
(* A name stands for itself after strip() and lower().                     *)
(***************************************************************************)
EXTENDS Naturals, FiniteSets

CONSTANTS Hub,      \* external: [id -> [type, windowed, normed]], the models that can be loaded
          Vendor    \* external: [name -> id], the names without "/" that begin with qwen or
                    \* mistral, and each with the prefix Qwen/ or mistralai/

VARIABLES file,     \* custom_models.json: its entries, and whether it no longer parses
          known,    \* KNOWN_MODELS of the running process
          kept      \* history: the completed registrations the file should hold

registryVars == <<file, known, kept>>

None == [x \in {} |-> {}]

(* A dictionary with an entry; and one dictionary on top of another.       *)
With(f, k, e) == [x \in DOMAIN f \cup {k} |-> IF x = k THEN e ELSE f[x]]
Over(f, g)    == [x \in DOMAIN f \cup DOMAIN g |-> IF x \in DOMAIN f THEN f[x] ELSE g[x]]

Level == {"FULL", "PARTIAL", "UNSUPPORTED"}

Entry(id, arch, family, level, windowed) ==
    [id |-> id, arch |-> arch, family |-> family, level |-> level, windowed |-> windowed]

KnownModels ==
    LET Qwen(id)    == Entry(id, "qwen2", "transformer", "FULL", FALSE)
        Mistral(id) == Entry(id, "mistral", "transformer", "FULL", TRUE)
    IN  [k \in {"qwen3-4b", "qwen3-8b", "qwen2.5-0.5b", "qwen3.5-4b", "tiny-mistral",
                "mistral-7b", "qwen3.5-9b", "jamba", "mamba"} |->
           CASE k = "qwen3-4b" -> Qwen("Qwen/Qwen3-4B-Instruct-2507")
             [] k = "qwen3-8b" -> Qwen("Qwen/Qwen3-8B")
             [] k = "qwen2.5-0.5b" -> Qwen("Qwen/Qwen2.5-0.5B")
             [] k = "qwen3.5-4b" -> Qwen("Qwen/Qwen3.5-4B-Instruct")
             [] k = "tiny-mistral" -> Mistral("openaccess-ai-collective/tiny-mistral")
             [] k = "mistral-7b" -> Mistral("mistralai/Mistral-7B-v0.1")
             [] k = "qwen3.5-9b" ->
                  Entry("Qwen/Qwen3.5-9B", "qwen3_5", "hybrid_recurrent", "PARTIAL", FALSE)
             [] k = "jamba" -> Entry("ai21labs/AI21-Jamba-1.5-Mini", "jamba",
                                     "hybrid_transformer_ssm", "PARTIAL", FALSE)
             [] k = "mamba" -> Entry("state-spaces/mamba-130m-hf", "mamba", "ssm",
                                     "UNSUPPORTED", FALSE)]

Alias(name) ==
    CASE name \in {"qwen3.5", "qwen-3.5"} -> "qwen3.5-4b"
      [] name \in {"qwen3.5-9b", "qwen-3.5-9b", "qwen3.5_9b", "Qwen/Qwen3.5-9B"} -> "qwen3.5-9b"
      [] OTHER -> name

(* load_custom_models: a file that does not parse counts as empty.         *)
LoadCustom == IF file.torn THEN None ELSE file.entries

(* list_models: a built-in entry hides a custom one of its key.            *)
ListModels == Over(known, LoadCustom)

(* What detect_model_config makes of the type of a configuration.          *)
Classified(id) ==
    LET type == Hub[id].type
        As(family, level) == Entry(id, type, family, level, Hub[id].windowed)
    IN  CASE type \in {"qwen2", "qwen", "qwen3", "mistral", "llama"} -> As("transformer", "FULL")
          [] type = "qwen3_5" -> As("hybrid_recurrent", "PARTIAL")
          [] type = "jamba" -> As("hybrid_transformer_ssm", "PARTIAL")
          [] type \in {"mamba", "mamba2", "rwkv"} -> As("ssm", "UNSUPPORTED")
          [] OTHER -> As("unknown", "UNSUPPORTED")

(* A name the hub does not know is tried once more, with its vendor.       *)
Detect(name) ==
    IF Alias(name) \in DOMAIN ListModels THEN ListModels[Alias(name)]
    ELSE IF name \in DOMAIN Hub THEN Classified(name)
    ELSE IF name \in DOMAIN Vendor /\ Vendor[name] \in DOMAIN Hub THEN Classified(Vendor[name])
    ELSE Entry(name, "unknown", "unknown", "UNSUPPORTED", FALSE)

(* get_adapter: by architecture, else by family.                           *)
GetAdapter(entry) ==
    CASE entry.arch \in {"qwen2", "qwen"} -> "Qwen"
      [] entry.arch \in {"mistral", "llama"} -> "Mistral"
      [] entry.arch = "jamba" -> "Jamba"
      [] entry.arch = "qwen3_5" -> "Qwen35"
      [] OTHER -> CASE entry.family = "transformer" -> "Mistral"
                    [] entry.family = "hybrid_transformer_ssm" -> "Jamba"
                    [] OTHER -> "none"

-----------------------------------------------------------------------------
(* scripts/add_model.py                                                    *)

(* The onboarding classifies by itself, and takes any decoder with layers  *)
(* and heads, which every other type on the hub is taken to be.            *)
Inspected(id) ==
    LET type == Hub[id].type
        As(arch, family, level) == Entry(id, arch, family, level, Hub[id].windowed)
    IN  CASE type \in {"qwen", "qwen2", "qwen3"} -> As("qwen2", "transformer", "FULL")
          [] type = "qwen3_5" -> As("qwen3_5", "hybrid_recurrent", "PARTIAL")
          [] type = "jamba" -> As("jamba", "hybrid_transformer_ssm", "PARTIAL")
          [] type \in {"mamba", "mamba2", "rwkv"} -> As(type, "ssm", "UNSUPPORTED")
          [] OTHER -> As("mistral", "transformer", "FULL")

(* Mutant: the file is written from this registration alone.               *)
SaveCustomAlone(key, entry) ==
    /\ file' = [torn |-> FALSE, entries |-> With(None, key, entry)]
    /\ known' = With(known, key, entry)

(* save_custom_model                                                       *)
SaveCustom(key, entry) ==
    /\ file' = [torn |-> FALSE, entries |-> With(LoadCustom, key, entry)]
    /\ known' = With(known, key, entry)

Register(id, key) ==
    /\ SaveCustom(key, Inspected(id))
    /\ kept' = With(kept, key, Inspected(id))

(* The file is truncated before it is written; the process dies in between *)
CrashInSave == /\ file' = [torn |-> TRUE, entries |-> None]
               /\ known' = KnownModels /\ kept' = None

Restart == /\ known # KnownModels
           /\ known' = KnownModels
           /\ UNCHANGED <<file, kept>>

RegistryInit == /\ file = [torn |-> FALSE, entries |-> None]
                /\ known = KnownModels /\ kept = None

-----------------------------------------------------------------------------
(* A model that was onboarded is found as it was registered, by this and   *)
(* by every later process, until a crash tears the file (registry.py:49-   *)
(* 64, 423-427).  Under a built-in key it is only until the process ends;  *)
(* under an alias never: the name answers what it is an alias of           *)
(* (:270-273).                                                             *)
(* A name is refused exactly if no adapter runs it (:265-415).             *)
RegistryAnswers ==
    /\ \A k \in DOMAIN kept :
          \/ Alias(k) \in DOMAIN kept /\ Detect(k) = kept[Alias(k)]
          \/ Alias(k) \in DOMAIN KnownModels /\ Detect(k) = KnownModels[Alias(k)]
    /\ \A n \in DOMAIN Hub \cup DOMAIN Vendor \cup DOMAIN ListModels :
          Detect(n).level = "UNSUPPORTED" <=> GetAdapter(Detect(n)) = "none"

(* What the onboarding says of the key it prints, "USE THIS EXACT KEY FOR  *)
(* DEMO-INFERENCE" (scripts/add_model.py:298): the process that registered *)
(* a model finds it under its key.  False: nothing keeps the key from      *)
(* being an alias, which the look-up replaces first (registry.py:270-273). *)
OnboardedFound ==
    \A k \in DOMAIN known \cap DOMAIN kept : known[k] = kept[k] => Detect(k) = kept[k]
=============================================================================
