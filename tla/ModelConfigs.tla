---------------------------- MODULE ModelConfigs ----------------------------
(* The configurations of models (capabilities/ai): rows of ai_model_config
   written by upsert of SqlAlchemyModelConfigStore, read through the cache
   of ModelConfigManager, which is a MemoryCacheBackend.  Its lock is free
   whenever it is asked for, so that only the statements on the database
   and the lock of the manager let others run in between.

   The database is external: a transaction sees what was committed, a row
   that is written is locked to its end, and model_code is unique. *)
EXTENDS Naturals, Sequences

CONSTANTS Codes,       \* model codes; a row is known by its code
          Default,     \* the key of get_config(None): the row with the least id
          Readers,     \* slots for get_config and refresh
          Editors,     \* slots for upsert
          MaxCached,   \* CacheConfig.max_size
          MaxVersion   \* bound: rows written

ASSUME ModelConfigsAssumption ==
  Default \notin Codes /\ MaxCached \in Nat \ {0} /\ MaxVersion \in Nat

CacheKeys == Codes \cup {Default}

VARIABLES rows,    \* committed rows in the order of their ids: [code, version]
          version, \* versions handed out so far, in the order of commits
          edit,    \* [at, code, exists] of each upsert
          cached,  \* _store: [key, version], the oldest entry first
          read,    \* [at, key, version, floor, late] of each call
          missed   \* history: keys a commit made stale, and no refresh took out

configVars == <<rows, version, edit, cached, read, missed>>

NotEditing == [at |-> "none", code |-> Default, exists |-> FALSE]
NotReading == [at |-> "none", key |-> Default, version |-> 0, floor |-> 0,
               late |-> FALSE]

ConfigInit ==
  /\ rows = <<>> /\ version = 0 /\ cached = <<>> /\ missed = {}
  /\ edit = [e \in Editors |-> NotEditing]
  /\ read = [r \in Readers |-> NotReading]

Has(code) == \E i \in DOMAIN rows : rows[i].code = code

\* load: the version of the row of a key, and 0 when there is none.
RowsOf(key) == {i \in DOMAIN rows : key \in {rows[i].code, Default}}
Loaded(key) ==
  IF RowsOf(key) = {} THEN 0
  ELSE rows[CHOOSE i \in RowsOf(key) : \A j \in RowsOf(key) : i <= j].version

----------------------------------------
(* upsert. *)

Select(e, code) ==
  /\ edit[e].at = "none"
  /\ edit' = [edit EXCEPT ![e] = [at |-> "write", code |-> code, exists |-> Has(code)]]
  /\ UNCHANGED <<rows, version, cached, read, missed>>

(* INSERT waits for one that inserts the same code, UPDATE for its row. *)
Locked(code) == \E e \in Editors : edit[e].at = "commit" /\ edit[e].code = code

WriteRow(e) ==
  /\ edit[e].at = "write" /\ ~Locked(edit[e].code)
  /\ edit' = [edit EXCEPT ![e] =
       IF Has(edit[e].code) /\ ~edit[e].exists THEN NotEditing
       ELSE [edit[e] EXCEPT !.at = "commit"]]
  /\ UNCHANGED <<rows, version, cached, read, missed>>

CommitRow(e) ==
  LET code == edit[e].code
      new == [code |-> code, version |-> version + 1]
  IN  /\ edit[e].at = "commit" /\ version < MaxVersion
      /\ version' = version + 1
      /\ rows' = IF Has(code)
                 THEN [i \in DOMAIN rows |-> IF rows[i].code = code THEN new
                                             ELSE rows[i]]
                 ELSE Append(rows, new)
      /\ missed' = missed \cup {code}
                     \cup (IF rows'[1].code = code THEN {Default} ELSE {})
      /\ edit' = [edit EXCEPT ![e] = NotEditing]
      /\ UNCHANGED <<cached, read>>

EditFails(e) ==
  /\ edit[e].at # "none"
  /\ edit' = [edit EXCEPT ![e] = NotEditing]
  /\ UNCHANGED <<rows, version, cached, read, missed>>

----------------------------------------
(* The cache. *)

IsCached(key) == \E i \in DOMAIN cached : cached[i].key = key
Position(key) == CHOOSE i \in DOMAIN cached : cached[i].key = key
CachedVersion(key) == cached[Position(key)].version
Without(key) ==
  IF IsCached(key) THEN SubSeq(cached, 1, Position(key) - 1)
                          \o SubSeq(cached, Position(key) + 1, Len(cached))
  ELSE cached

\* set: beyond the capacity the oldest entry goes.
With(key, v) ==
  LET s == Append(Without(key), [key |-> key, version |-> v])
  IN  IF Len(s) > MaxCached THEN Tail(s) ELSE s

EntryExpires(key) ==
  /\ IsCached(key) /\ cached' = Without(key)
  /\ UNCHANGED <<rows, version, edit, read, missed>>

----------------------------------------
(* get_config and refresh. *)

Loading(r) == read[r].at \in {"load", "answer"}
ManagerFree == \A r \in Readers : ~Loading(r)

\* One who read the row before its last change and has yet to cache it.
OnItsWay(key) ==
  \E r \in Readers : read[r].at = "answer" /\ read[r].key = key
                     /\ read[r].version # Loaded(key)

(* Asks the cache, and then for the lock of the manager. *)
Asks(r, key, entries, floor, late) ==
  LET hit == \E i \in DOMAIN entries : entries[i].key = key
      v == entries[CHOOSE i \in DOMAIN entries : entries[i].key = key].version
  IN  read' = [read EXCEPT ![r] =
        [key |-> key, floor |-> floor, late |-> late,
         version |-> IF hit THEN v ELSE 0,
         at |-> IF hit THEN "done" ELSE IF ManagerFree THEN "load" ELSE "wait"]]

GetConfig(r, key) ==
  /\ read[r].at = "none"
  /\ Asks(r, key, cached, 0, FALSE)
  /\ UNCHANGED <<rows, version, edit, cached, missed>>

(* A mutant: only a code of its own is taken out of the cache. *)
NotDefault(key) == IF key = Default THEN cached ELSE Without(key)

Forgotten(key) == Without(key)

Refresh(r, key) ==
  /\ read[r].at = "none"
  /\ cached' = Forgotten(key)
  /\ missed' = IF OnItsWay(key) THEN missed ELSE missed \ {key}
  /\ Asks(r, key, cached', Loaded(key), OnItsWay(key))
  /\ UNCHANGED <<rows, version, edit>>

(* The lock is handed on: the cache is asked once more. *)
GetsLock(r) ==
  /\ read[r].at = "wait" /\ ManagerFree
  /\ Asks(r, read[r].key, cached, read[r].floor, read[r].late)
  /\ UNCHANGED <<rows, version, edit, cached, missed>>

Load(r) ==
  /\ read[r].at = "load"
  /\ read' = [read EXCEPT ![r].at = "answer", ![r].version = Loaded(read[r].key)]
  /\ UNCHANGED <<rows, version, edit, cached, missed>>

(* A configuration is cached and returned; none is an error. *)
Answer(r) ==
  /\ read[r].at = "answer"
  /\ cached' = IF read[r].version = 0 THEN cached
               ELSE With(read[r].key, read[r].version)
  /\ read' = [read EXCEPT ![r] = IF read[r].version = 0 THEN NotReading
                                 ELSE [read[r] EXCEPT !.at = "done"]]
  /\ UNCHANGED <<rows, version, edit, missed>>

LoadFails(r) ==
  /\ Loading(r)
  /\ read' = [read EXCEPT ![r] = NotReading]
  /\ UNCHANGED <<rows, version, edit, cached, missed>>

GivesBack(r) ==
  /\ read[r].at = "done"
  /\ read' = [read EXCEPT ![r] = NotReading]
  /\ UNCHANGED <<rows, version, edit, cached, missed>>

ConfigNext ==
  \/ \E e \in Editors : (\E c \in Codes : Select(e, c)) \/ WriteRow(e)
                        \/ CommitRow(e) \/ EditFails(e)
  \/ \E k \in CacheKeys : EntryExpires(k) \/ \E r \in Readers : GetConfig(r, k)
                                                          \/ Refresh(r, k)
  \/ \E r \in Readers : GetsLock(r) \/ Load(r) \/ Answer(r) \/ LoadFails(r)
                        \/ GivesBack(r)

ConfigSpec == ConfigInit /\ [][ConfigNext]_configVars

ConfigTypeOK ==
  /\ version \in 0..MaxVersion
  /\ rows \in Seq([code : Codes, version : 1..MaxVersion])
  /\ cached \in Seq([key : CacheKeys, version : 1..MaxVersion])
  /\ Len(cached) <= MaxCached /\ missed \subseteq CacheKeys
  /\ edit \in [Editors -> [at : {"none", "write", "commit"},
                           code : CacheKeys, exists : BOOLEAN]]
  /\ read \in [Readers -> [at : {"none", "wait", "load", "answer", "done"},
                           key : CacheKeys, version : 0..MaxVersion,
                           floor : 0..MaxVersion, late : BOOLEAN]]

(* A configuration in the cache is the one in the table, unless the table
   was changed and the key was not refreshed after that, or was refreshed
   while an older row was on its way into the cache; and what refresh
   returns is no older than the row was when it began, with the same
   exception.  One row per code, whoever inserts it. *)
FreshConfigs ==
  /\ \A k \in CacheKeys : IsCached(k) /\ CachedVersion(k) # Loaded(k) => k \in missed
  /\ \A r \in Readers : read[r].at = "done" => read[r].late \/ read[r].version >= read[r].floor
  /\ \A i, j \in DOMAIN rows : rows[i].code = rows[j].code => i = j

(* What a manager answers is what the table says, or was when the change
   came between loading and caching it (ModelConfigManager). *)
ConfigsSound == ConfigTypeOK /\ FreshConfigs
=============================================================================
