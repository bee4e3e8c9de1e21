------------------------------ MODULE PolicyOps ------------------------------
(***************************************************************************)
(* ValidatedPolicy::validate of policy.rs as an operator on a policy file. *)
(*                                                                         *)
(* A category key is named by the data class it belongs to.  An Option is  *)
(* a set of at most one element.  Names, and the texts of detector terms,  *)
(* are abstracted to what validation asks of them: whether a name is a     *)
(* slug, how many terms there are and how long, whether one holds a        *)
(* control character.  The hash only identifies the policy.                *)
(***************************************************************************)
EXTENDS Naturals

AllDataClasses ==
  {"Credentials", "PrivateKey", "Jwt", "DatabaseCredential", "Email", "Phone",
   "PrivateIpv4", "InternalHostname", "HomePath", "CustomTerm",
   "TokenNamespace"}

hard_block(class) ==
  class \in {"Credentials", "PrivateKey", "Jwt", "DatabaseCredential",
             "TokenNamespace"}

MaxRestorationTtl == 30 * 60
DefaultRestorationTtl == 15 * 60

\* The literal bounds of validate.
MaxRequestBytes == 8 * 1024 * 1024
MaxLedgerEntries == 16384

Rule(action, restorable, ttl) ==
  [action |-> action, restorable |-> restorable, ttl |-> ttl]

\* ttl_seconds.unwrap_or(DEFAULT_RESTORATION_TTL_SECONDS)
EffectiveTtl(rule) ==
  IF rule.ttl = {} THEN DefaultRestorationTtl ELSE CHOOSE t \in rule.ttl : TRUE

\* Hard classes are checked for restoration only.
validate_ruleBug(class, rule) ==
  /\ hard_block(class) => ~rule.restorable
  /\ rule.restorable <=> rule.action = "tokenize"
  /\ rule.ttl # {} => rule.action = "tokenize"
  /\ rule.action = "tokenize" => EffectiveTtl(rule) \in 1..MaxRestorationTtl

validate_rule(class, rule) ==
  /\ hard_block(class) => rule.action = "block" /\ ~rule.restorable
  /\ rule.restorable <=> rule.action = "tokenize"
  /\ rule.ttl # {} => rule.action = "tokenize"
  /\ rule.action = "tokenize" => EffectiveTtl(rule) \in 1..MaxRestorationTtl

validate_detector_settings(settings) ==
  /\ settings.suffixes <= 64
  /\ settings.terms <= 128
  /\ settings.prefixes <= 16
  /\ settings.lengths \subseteq 3..128
  /\ ~settings.control

is_safe_slug(name) == name # "unsafe"

validate(policy) ==
  /\ policy.version = 1
  /\ is_safe_slug(policy.name)
  /\ ~policy.raw_logging
  /\ policy.unknown_sensitive = "block"
  /\ policy.max_request_bytes \in 1024..MaxRequestBytes
  /\ policy.ledger_max_entries \in 1..MaxLedgerEntries
  /\ DOMAIN policy.categories = AllDataClasses
  /\ \A class \in AllDataClasses : validate_rule(class, policy.categories[class])
  /\ validate_detector_settings(policy.detectors)

=============================================================================
