--------------------------- MODULE Configuration ----------------------------
(* The settings of a process (infra/config, capabilities/config).  Settings
   reads a key, or a section whole, from the first source that has it; the
   YAML files are read when they are first asked, with the placeholders of
   that moment.  BaseConfig merges the files of a profile, the environment
   and Nacos leaf by leaf.

   A value is known by the layer that declared it.  What a layer says of a
   key is "none", "null" (an empty YAML value), "lit", "ref" (a
   placeholder: of the key's own variable with a default in settings, of
   the next property in profiles) or "bad" (not an environment). *)
EXTENDS Naturals, FiniteSets

CONSTANTS Section,      \* keys of one section, read one by one or together
          Mode,         \* app.env
          Declarations, \* of settings: [code, flat, dotenv, project, default]
          Properties,   \* of a profile; the last one refers to no other
          NextProperty, \* the property a placeholder names
          ProfileNames, \* besides "dev"
          Bundles       \* of profiles: [base, files, env, remote, asked, nacos]

SettingKeys == Section \cup {Mode}
EnvLayers == {"process", "dotenv"}

ASSUME ConfigurationAssumption ==
  /\ Mode \notin Section /\ NextProperty \in [Properties -> Properties]

VARIABLES declared, \* what the layers say
          environ,  \* os.environ: the layer of each variable
          exported, \* history: keys whose variable the process set
          files,    \* _data of the two YAML sources, or Unread
          stage,    \* of the start: "new", "imported", "made"
          appEnv,   \* the layer that decided Settings.app_env
          answer,   \* the last read: [of, value]
          booted    \* what BaseConfig made of a bundle: [bundle, value]

settingVars == <<declared, environ, exported, files, stage, appEnv, answer, booted>>

Unread == [k \in {} |-> "none"]
NoAnswer == [of |-> "nothing", value |-> Unread]
NotBooted == [bundle |-> "none", value |-> Unread]

SettingsInit ==
  /\ declared \in Declarations
  /\ environ = [k \in SettingKeys |-> "none"] /\ exported = {}
  /\ files = [f \in {"project", "default"} |-> Unread]
  /\ stage = "new" /\ appEnv = "none" /\ answer = NoAnswer /\ booted = NotBooted

----------------------------------------
(* Sources. *)

(* Mutant of LoadEnvFile: the file takes the place of what is set. *)
LoadEnvFileOverriding ==
  environ' = [k \in SettingKeys |->
                IF declared.dotenv[k] = "lit" THEN "dotenv" ELSE environ[k]]

(* load_env_file: what is set already stays. *)
LoadEnvFile ==
  environ' = [k \in SettingKeys |->
                IF environ[k] = "none" /\ declared.dotenv[k] = "lit"
                THEN "dotenv" ELSE environ[k]]

(* resolve_env_placeholders over a file. *)
Parsed(f, env) ==
  [k \in SettingKeys |->
     CASE declared[f][k] = "ref" -> IF env[k] # "none" THEN env[k] ELSE f
       [] declared[f][k] = "lit" -> f
       [] OTHER -> declared[f][k]]

(* YamlConfigSource._load. *)
Contents(f) == IF files[f] = Unread THEN Parsed(f, environ) ELSE files[f]

CodeSays(k) == IF declared.code[k] = "lit" THEN "code" ELSE "none"
EnvSays(k) == environ[k]

(* The sources of the composite in their order, as functions of the key. *)
SourceValue(k) ==
  <<CodeSays(k), EnvSays(k), Contents("project")[k], Contents("default")[k]>>

FirstSaid(values) ==
  IF \A i \in DOMAIN values : values[i] = "none" THEN "none"
  ELSE values[CHOOSE i \in DOMAIN values :
                /\ values[i] # "none"
                /\ \A j \in 1..(i - 1) : values[j] = "none"]

(* Mutant of GetKey: a file before the environment. *)
GetKeyFilesFirst(k) ==
  FirstSaid(<<CodeSays(k), Contents("project")[k], EnvSays(k), Contents("default")[k]>>)

(* CompositeConfigSource.get of a key. *)
GetKey(k) == FirstSaid(SourceValue(k))

(* A file is read when the sources before it do not have the key. *)
ReadFor(keys) ==
  LET asked(f) == \E k \in keys : \A i \in 1..(IF f = "project" THEN 2 ELSE 3) :
                    SourceValue(k)[i] = "none"
  IN  files' = [f \in DOMAIN files |-> IF asked(f) THEN Contents(f) ELSE files[f]]

(* get of the section: the first source with any key of it answers for all. *)
SaysAny(values) == \E k \in Section : values[k] # "none"
CodeSection == [k \in Section |-> IF declared.flat THEN "none" ELSE CodeSays(k)]
FileSection(f) == [k \in Section |-> Contents(f)[k]]
GetSection ==
  IF SaysAny(CodeSection) THEN CodeSection
  ELSE IF SaysAny(FileSection("project")) THEN FileSection("project")
  ELSE FileSection("default")

----------------------------------------
(* The start of a process. *)

(* The process, or what started it, sets a variable; app.env is decided
   once. *)
Export(k) ==
  /\ environ[k] # "process" /\ (stage = "made" => k # Mode)
  /\ environ' = [environ EXCEPT ![k] = "process"] /\ exported' = exported \cup {k}
  /\ answer' = NoAnswer
  /\ UNCHANGED <<declared, files, stage, appEnv, booted>>

(* import web_infra. *)
Import ==
  /\ stage = "new" /\ stage' = "imported"
  /\ LoadEnvFile
  /\ UNCHANGED <<declared, exported, files, appEnv, answer, booted>>

(* _resolve_app_env: a value that is no environment counts as dev, and the
   layers below it are not asked. *)
DecidedBy(k) ==
  IF k \in {"none", "bad", "null"} THEN "dev" ELSE k

(* Settings: default_source loads .env once more. *)
MakeSettings ==
  /\ stage = "imported" /\ stage' = "made"
  /\ LoadEnvFile
  /\ IF environ'[Mode] # "none"
     THEN appEnv' = environ'[Mode] /\ UNCHANGED files
     ELSE appEnv' = DecidedBy(GetKey(Mode)) /\ ReadFor({Mode})
  /\ UNCHANGED <<declared, exported, answer, booted>>

ReadKey(k) ==
  /\ stage = "made"
  /\ answer' = [of |-> "key", value |-> [x \in {k} |-> GetKey(k)]]
  /\ ReadFor({k})
  /\ UNCHANGED <<declared, environ, exported, stage, appEnv, booted>>

(* Application._db_params, _mongo_params and the like. *)
ReadSection ==
  /\ stage = "made"
  /\ answer' = [of |-> "section", value |-> GetSection]
  /\ files' = [f \in DOMAIN files |->
                 IF \/ SaysAny(CodeSection)
                    \/ f = "default" /\ SaysAny(FileSection("project"))
                 THEN files[f] ELSE Contents(f)]
  /\ UNCHANGED <<declared, environ, exported, stage, appEnv, booted>>

----------------------------------------
(* BaseConfig.from_yaml_with_profile. *)

(* _load_yaml: what a layer declares, by the name of the layer. *)
Named(says, layer) ==
  [p \in Properties |-> IF says[p] = "lit" THEN layer ELSE says[p]]

(* Mutant of DeepMerge: an empty value takes the place of a value. *)
DeepMergeNulls(base, override) ==
  [p \in Properties |-> IF override[p] = "none" THEN base[p] ELSE override[p]]

(* _deep_merge. *)
DeepMerge(base, override) ==
  [p \in Properties |-> IF override[p] \in {"none", "null"} THEN base[p]
                        ELSE override[p]]

(* _resolve_property_placeholders, with the properties as they were.  What
   a placeholder is replaced by may be one of another property again; only
   one property has none. *)
Resolved(m) ==
  [p \in Properties |->
     IF m[p] = "ref" /\ m[NextProperty[p]] # "none" THEN m[NextProperty[p]] ELSE m[p]]

Profile(asked) ==
  IF asked.argument # "none" THEN asked.argument
  ELSE IF asked.variable # "none" THEN asked.variable
  ELSE IF asked.file # "none" THEN asked.file
  ELSE "dev"

(* What a placeholder names has none itself, and a profile is not called
   like one of the marks that a layer may say. *)
ASSUME BundlesAssumption ==
  \A b \in Bundles :
    /\ Profile(b.asked) \notin {"none", "null", "ref"}
    /\ \A p \in Properties, says \in {b.base, b.files[Profile(b.asked)], b.env, b.remote} :
         says[NextProperty[p]] # "ref"

(* _collect_env_overrides, and what NacosConfigLoader parses. *)
EnvOverrides(b) == Named(b.env, "env")
Remote(b) == Named(b.remote, "remote")

Local(b) ==
  LET yaml == DeepMerge(Named(b.base, "base"),
                        Named(b.files[Profile(b.asked)], Profile(b.asked)))
  IN  Resolved(DeepMerge(Resolved(yaml), EnvOverrides(b)))

(* Nacos answers nothing, or is not asked, and the start goes on. *)
FromYamlWithProfile(b) ==
  IF b.nacos = "loaded"
  THEN Resolved(DeepMerge(Local(b), Remote(b)))
  ELSE Local(b)

Boot(b) ==
  /\ booted' = [bundle |-> b, value |-> FromYamlWithProfile(b)]
  /\ UNCHANGED <<declared, environ, exported, files, stage, appEnv, answer>>

SettingsNext ==
  \/ \E k \in SettingKeys : Export(k) \/ ReadKey(k)
  \/ Import \/ MakeSettings \/ ReadSection

ProfilesNext == booted = NotBooted /\ \E b \in Bundles : Boot(b)

----------------------------------------
(* Properties. *)

(* Who may speak for a key, the first to say something first. *)
Speakers(k) ==
  <<CodeSays(k),
    IF k \in exported THEN "process" ELSE "none",
    IF declared.dotenv[k] = "lit" THEN "dotenv" ELSE "none",
    IF declared.project[k] \in {"lit", "ref"} THEN "project" ELSE declared.project[k],
    IF declared.default[k] \in {"lit", "ref"} THEN "default" ELSE declared.default[k]>>

SettingsTypeOK ==
  /\ environ \in [SettingKeys -> EnvLayers \cup {"none"}]
  /\ stage \in {"new", "imported", "made"}
  /\ \A f \in DOMAIN files : files[f] = Unread \/ DOMAIN files[f] = SettingKeys

(* A key is answered by code, else by the process, else by .env, else by
   the project's file, else by the default file; and so is app.env, but
   that the environment comes before code (config_utils.load_env_file,
   Settings._resolve_app_env, CompositeConfigSource.get), whatever was
   read before, and however a file was read into memory. *)
LayersRespected ==
  /\ answer.of = "key" =>
       \A k \in DOMAIN answer.value : answer.value[k] = FirstSaid(Speakers(k))
  /\ stage = "made" =>
       appEnv = (IF Mode \in exported THEN "process"
                 ELSE IF declared.dotenv[Mode] = "lit" THEN "dotenv"
                 ELSE DecidedBy(FirstSaid(Speakers(Mode))))

(* A profile that was merged: a value that was written out comes from the
   highest layer that has one (Nacos, environment, the profile's file, the
   base file; empty values do not count), and no placeholder is left whose
   property is known (BaseConfig.from_yaml_with_profile). *)
ProfileLayered ==
  booted # NotBooted =>
    LET b == booted.bundle
        says == <<IF b.nacos = "loaded" THEN b.remote ELSE [p \in Properties |-> "none"],
                  b.env, b.files[Profile(b.asked)], b.base>>
        name == <<"remote", "env", Profile(b.asked), "base">>
        counts(i, p) == says[i][p] \notin {"none", "null"}
    IN  \A p \in Properties :
          /\ \A i \in DOMAIN says :
               /\ says[i][p] = "lit"
               /\ \A j \in 1..(i - 1) : ~counts(j, p)
               => booted.value[p] = name[i]
          /\ booted.value[p] = "ref" => booted.value[NextProperty[p]] = "none"

(* Both kinds of configuration say what the highest layer says that speaks
   (infra/config: settings read key by key, and merged profiles). *)
ConfigurationLayered == LayersRespected /\ ProfileLayered
=============================================================================
