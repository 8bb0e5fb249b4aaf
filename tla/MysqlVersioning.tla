-------------------------- MODULE MysqlVersioning --------------------------
(***************************************************************************)
(* The version algebra of pkg/mysqlversioning and pkg/util/{semver,        *)
(* mysqlversion}: semantic versions, the profile ("LTS line") a version    *)
(* resolves to, and the rules that decide whether spec.mysqlVersion may be *)
(* rolled out over status.appliedMysqlVersion.  No state.                  *)
(***************************************************************************)
EXTENDS Naturals

Version == [major : Nat, minor : Nat, patch : Nat]

V(x, y, z) == [major |-> x, minor |-> y, patch |-> z]

\* semver.Zero: "no version recorded".
Zero == V(0, 0, 0)

LT(v, w) ==
  \/ v.major < w.major
  \/ v.major = w.major /\ v.minor < w.minor
  \/ v.major = w.major /\ v.minor = w.minor /\ v.patch < w.patch

GT(v, w) == LT(w, v)

AtLeastMySQL8(v) == v.major >= 8

AtLeastMySQL84(v) == v.major > 8 \/ (v.major = 8 /\ v.minor >= 4)

\* The registry returns the first profile that matches; the last one always does.
ProfileFor(v) ==
  IF AtLeastMySQL84(v) THEN "percona-8.4"
  ELSE IF AtLeastMySQL8(v) THEN "percona-8.0"
  ELSE IF v.major = 5 THEN "percona-5.7"
  ELSE "fallback-unknown"

ProfilesMatch(v, w) == ProfileFor(v) = ProfileFor(w)

profileUpgradeIndex(name) ==
  IF name = "percona-5.7" THEN 0
  ELSE IF name = "percona-8.0" THEN 1
  ELSE IF name = "percona-8.4" THEN 2
  ELSE 3

\* The position of a version's profile in profileUpgradeOrder.
Line(v) == profileUpgradeIndex(ProfileFor(v))

\* TRUE iff ValidateUpgradePath returns no error.
ValidateUpgradePath(current, target) ==
  /\ ~LT(target, current)
  /\ \/ target = current
     \/ /\ ProfileFor(current) # "fallback-unknown" /\ ProfileFor(target) # "fallback-unknown"
        /\ Line(target) <= Line(current) + 1

VersionChangePending(desired, applied, hasData) ==
  IF applied = Zero
  THEN hasData
  ELSE ~ProfilesMatch(applied, desired) \/ LT(applied, desired)

\* perconaInitRange: ">=5.7.26 <8.0.0 || >=8.0.15"; the fallback profile says no.
WantsPerconaInitContainer(v) ==
  /\ ProfileFor(v) # "fallback-unknown"
  /\ \/ ~LT(v, V(5, 7, 26)) /\ LT(v, V(8, 0, 0))
     \/ ~LT(v, V(8, 0, 15))

\* The UID the mysqld container of a Percona image runs as.
MysqlUID(v) == IF ProfileFor(v) = "percona-8.4" THEN 1001 ELSE 999
=============================================================================
