--------------------------- MODULE ConnectionFile ---------------------------
(***************************************************************************)
(* controller/internal/reconcilehelper: the data of a ConfigMap is the     *)
(* connection file its kernel reads, made of the KernelManager's           *)
(* kernelConnectionConfig with the keys in snake case.  Two keys of one    *)
(* snake case would overwrite each other, in the order of a Go map's       *)
(* iteration, which is any: the file is made again at every reconciliation *)
(* and compared with the stored one.                                       *)
(*                                                                         *)
(* A key of the configuration is a sequence of one-letter strings, and a   *)
(* file is a function from such sequences.                                 *)
(***************************************************************************)
EXTENDS ConfigMapFields, Naturals, SequencesExt, FiniteSetsExt

CONSTANTS
  Initials,   \* what the configuration's keys begin with
  Letters,    \* what they go on with
  MaxLength,  \* bound: letters of a key
  MaxKeys,    \* bound: keys of a configuration
  Settings    \* its values, with 0, the zero value

ASSUME FileAssumption ==
  /\ 0 \in Settings /\ MaxKeys \in Nat /\ MaxLength \in Nat
  /\ Initials \cup Letters \subseteq {"a", "b", "A", "B"}

VARIABLE config   \* the configuration: from its keys to their values

fileVars == <<vars, config>>

-----------------------------------------------------------------------------
Upper == {"A", "B"}
ToLower == [A |-> "a", B |-> "b", a |-> "a", b |-> "b"]

\* Bug: no underscore before a capital.
ConvertRuneToLower(str, i) == <<ToLower[str[i]]>>

ConvertRune(str, i) ==
  IF i > 1 /\ str[i] \in Upper THEN <<"_", ToLower[str[i]]>> ELSE <<ToLower[str[i]]>>

ConvertToSnakeCase(str) == FlattenSeq([i \in DOMAIN str |-> ConvertRune(str, i)])

\* The first json.Marshal: omitempty leaves zero values out.
Marshalled(c) == {k \in DOMAIN c : c[k] # 0}

\* The files that can come of it, by which of the keys of one snake case is
\* written last.
ToSnakeCaseJSON(c) ==
  LET keys == Marshalled(c)
      names == {ConvertToSnakeCase(k) : k \in keys}
  IN {f \in [names -> Settings] :
        \A s \in names : \E k \in keys : ConvertToSnakeCase(k) = s /\ f[s] = c[k]}

ConfigKeys == {<<a>> \o s : a \in Initials, s \in BoundedSeq(Letters, MaxLength - 1)}

Configs == UNION {[K -> Settings] : K \in UNION {kSubset(i, ConfigKeys) : i \in 1 .. MaxKeys}}

\* The files that can come of any configuration.
Files == UNION {ToSnakeCaseJSON(c) : c \in Configs}

\* What a ConfigMap holds may be such a file; the keys are as many as letters
\* and a length allow.
ASSUME KeysAssumption == Files \subseteq Datas /\ IsFiniteSet(ConfigKeys)

-----------------------------------------------------------------------------
FileInit ==
  /\ Init
  /\ config \in Configs
  /\ wanted.data \in ToSnakeCaseJSON(config)

Edit == (EditKernelManager \/ EditConfigMap) /\ UNCHANGED config

\* generateConfigMap, and the ConfigMap brought up to date with its result.
Reconcile ==
  /\ \E f \in ToSnakeCaseJSON(config) : UpdateTo([wanted EXCEPT !.data = f])
  /\ UNCHANGED config

FileNext == Edit \/ Reconcile

FileSpec == FileInit /\ [][FileNext]_fileVars

-----------------------------------------------------------------------------
(* Properties.                                                             *)

\* With keys in camel case, as those of KernelConnectionConfig, the file of a
\* reconciled ConfigMap has every value that was configured under its own key
\* and nothing else, whatever had been edited in.
FileIsComplete ==
  settled =>
    /\ \A k \in Marshalled(config) : stored.data[ConvertToSnakeCase(k)] = config[k]
    /\ Cardinality(DOMAIN stored.data) = Cardinality(Marshalled(config))

\* A configuration has one file: reconciling again without an edit writes
\* nothing, so the controller does not wake itself up for ever.
NothingToRewrite == [][settled /\ settled' => stored' = stored]_fileVars

=============================================================================
