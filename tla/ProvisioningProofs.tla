------------------------- MODULE ProvisioningProofs -------------------------
(***************************************************************************)
(* Proofs about Provisioning, for any accounts, roles, currencies,         *)
(* sequences, forms and releases.                                          *)
(***************************************************************************)
EXTENDS Provisioning, FiniteSetTheorems, TLAPS

-----------------------------------------------------------------------------
(***************************************************************************)
(* Rounding.                                                               *)
(***************************************************************************)
(* A whole number of quanta has no rest. *)
LEMMA QuantaExact ==
  ASSUME NEW k \in Int, NEW q \in Nat \ {0}
  PROVE  Below(q * k, q) = k /\ Rest(q * k, q) = 0
<1>1. (q * k) \div q = k
  BY Z3
<1>2. QED
  BY <1>1 DEF Below, Rest

LEMMA WholeStays ==
  ASSUME NEW k \in Int, NEW q \in Nat \ {0}, NEW mode
  PROVE  RoundMoney(q * k, q, mode) = q * k
<1>1. Below(q * k, q) = k /\ Rest(q * k, q) = 0
  BY QuantaExact
<1>2. ~RoundsUp(q * k, q, mode)
  BY <1>1 DEF RoundsUp
<1>3. QED
  BY <1>1, <1>2 DEF RoundMoney

(* round_money yields a whole number of the currency's coins, at most half *)
(* a coin from the amount.                                                 *)
THEOREM RoundedToCoins ==
  ASSUME NEW x \in Int, NEW q \in Nat \ {0}, NEW mode \in RoundingModes
  PROVE  /\ \E k \in Int : RoundMoney(x, q, mode) = q * k
         /\ 2 * RoundMoney(x, q, mode) - 2 * x \in -q .. q
<1> DEFINE b == Below(x, q)
           up == IF RoundsUp(x, q, mode) THEN 1 ELSE 0
<1>1. b \in Int /\ up \in Int /\ up \in {0, 1}
  BY DEF Below
<1>2. q * b \in Int /\ q * b <= x /\ x < q * b + q
  BY DEF Below
<1>3. RoundMoney(x, q, mode) = q * (b + up)
  BY DEF RoundMoney
<1>4. q * (b + up) = q * b + q * up
  BY <1>1
<1>5. Rest(x, q) = x - q * b
  BY DEF Rest
<1>6. 2 * (q * b + q * up) - 2 * x \in -q .. q
  <2>1. CASE RoundsUp(x, q, mode)
    <3>1. up = 1 /\ 2 * (x - q * b) >= q
      BY <2>1, <1>5, <1>2 DEF RoundsUp
    <3>2. QED
      BY <3>1, <1>2
  <2>2. CASE ~RoundsUp(x, q, mode)
    <3>1. up = 0 /\ 2 * (x - q * b) <= q
      BY <2>2, <1>5, <1>2 DEF RoundsUp
    <3>2. QED
      BY <3>1, <1>2
  <2>3. QED
    BY <2>1, <2>2
<1>7. QED
  BY <1>1, <1>3, <1>4, <1>6

(* An amount rounded to a currency prints as it is. *)
THEOREM PrintsAsRounded ==
  ASSUME NEW x \in Int, NEW q \in Nat \ {0}, NEW mode \in RoundingModes
  PROVE  FormatMoney(RoundMoney(x, q, mode), q) = RoundMoney(x, q, mode)
<1>1. PICK k \in Int : RoundMoney(x, q, mode) = q * k
  BY RoundedToCoins
<1>2. QED
  BY <1>1, WholeStays DEF FormatMoney

(* Rounding in either mode keeps the order of amounts, so that no line is  *)
(* dearer than another in exact terms and cheaper on paper.                *)
THEOREM RoundingKeepsOrder ==
  ASSUME NEW x \in Int, NEW y \in Int, x <= y,
         NEW q \in Nat \ {0}, NEW mode \in RoundingModes
  PROVE  RoundMoney(x, q, mode) <= RoundMoney(y, q, mode)
<1> DEFINE b == Below(x, q)
           c == Below(y, q)
           up == IF RoundsUp(x, q, mode) THEN 1 ELSE 0
           upper == IF RoundsUp(y, q, mode) THEN 1 ELSE 0
<1>1. b \in Int /\ c \in Int /\ up \in {0, 1} /\ upper \in {0, 1}
  BY DEF Below
<1>2. q * b <= x /\ x < q * b + q /\ q * c <= y /\ y < q * c + q
  BY DEF Below
<1>3. b <= c
  BY x <= y DEF Below
<1>4. RoundMoney(x, q, mode) = q * (b + up) /\ RoundMoney(y, q, mode) = q * (c + upper)
  BY DEF RoundMoney
<1>5. b + up <= c + upper
  <2>1. CASE b = c
    <3>1. Rest(x, q) <= Rest(y, q) /\ Rest(x, q) \in Int /\ Rest(y, q) \in Int
      BY <1>1, <2>1 DEF Rest
    <3>2. RoundsUp(x, q, mode) => RoundsUp(y, q, mode)
      BY <2>1, <3>1 DEF RoundsUp
    <3>3. up <= upper
      BY <1>1, <3>2
    <3>4. QED
      BY <1>1, <2>1, <3>3
  <2>2. CASE b # c
    BY <1>1, <1>3, <2>2
  <2>3. QED
    BY <2>1, <2>2
<1>6. \A m, n \in Int : m <= n => q * m <= q * n
  BY Z3
<1>7. b + up \in Int /\ c + upper \in Int
  BY <1>1
<1>8. q * (b + up) <= q * (c + upper)
  BY <1>5, <1>6, <1>7
<1>9. QED
  BY <1>4, <1>8
-----------------------------------------------------------------------------
(***************************************************************************)
(* The catalogue.                                                          *)
(***************************************************************************)
Codes == PERMISSIONS \cup Added

LEMMA CatalogueTyped ==
  ASSUME NEW n \in 0..MaxRelease
  PROVE  AllPermissionCodes[n] \subseteq Codes
<1>1. AllPermissionCodes[n] =
        IF n = 0 THEN PERMISSIONS ELSE (PERMISSIONS \ Retired) \cup Added
  BY DEF AllPermissionCodes
<1>2. QED
  BY <1>1 DEF Codes

(* A role is seeded with codes of the release, and the approver's role is  *)
(* the only one that may decide approvals.                                 *)
LEMMA BuiltinRoleTyped ==
  ASSUME NEW n \in 0..MaxRelease, NEW r \in BuiltinCodes
  PROVE  /\ BuiltinRoles[n][r] \subseteq Codes
         /\ "approval.decide" \in BuiltinRoles[n][r] => r = Approver
<1>1. BuiltinRoles[n][r] = BuiltinRole(n, r)
  BY DEF BuiltinRoles
<1>2. AllPermissionCodes[n] \subseteq Codes
  BY CatalogueTyped
<1>3. CASE r = SystemAdministrator
  <2>1. BuiltinRole(n, r) = AllPermissionCodes[n] \ {"approval.decide"}
    BY <1>3 DEF BuiltinRole, SystemAdministrator, Approver
  <2>2. QED
    BY <1>1, <1>2, <2>1
<1>4. CASE r = "sales_manager"
  <2>1. BuiltinRole(n, r) = SalesManager \cap AllPermissionCodes[n]
    BY <1>4 DEF BuiltinRole, SystemAdministrator, Approver
  <2>2. "approval.decide" \notin SalesManager
    BY DEF SalesManager, Selling
  <2>3. QED
    BY <1>1, <1>2, <2>1, <2>2
<1>5. CASE r = "sales_representative"
  <2>1. BuiltinRole(n, r) = SalesRepresentative \cap AllPermissionCodes[n]
    BY <1>5 DEF BuiltinRole, SystemAdministrator, Approver
  <2>2. "approval.decide" \notin SalesRepresentative
    BY DEF SalesRepresentative, Selling
  <2>3. QED
    BY <1>1, <1>2, <2>1, <2>2
<1>6. CASE r = Approver
  <2>1. BuiltinRole(n, r) =
          (Reading \cup {"approval.decide", "approval.reassign"}) \cap AllPermissionCodes[n]
    BY <1>6 DEF BuiltinRole, SystemAdministrator, Approver
  <2>2. QED
    BY <1>1, <1>2, <1>6, <2>1
<1>7. CASE r = "read_only"
  <2>1. BuiltinRole(n, r) = (Reading \cup {"settings.view"}) \cap AllPermissionCodes[n]
    BY <1>7 DEF BuiltinRole, SystemAdministrator, Approver
  <2>2. "approval.decide" \notin Reading \cup {"settings.view"}
    BY DEF Reading
  <2>3. QED
    BY <1>1, <1>2, <2>1, <2>2
<1>8. QED
  BY <1>3, <1>4, <1>5, <1>6, <1>7 DEF BuiltinCodes

LEMMA Replaced ==
  ASSUME NEW held, NEW wanted
  PROVE  SetPermissions(held, wanted) = wanted
  BY DEF SetPermissions
-----------------------------------------------------------------------------
(***************************************************************************)
(* The inductive invariant.                                                *)
(***************************************************************************)
(* A built-in role stays active, and whoever may decide was given it.      *)
RoleInv ==
    \A r \in RoleCodes :
       /\ r \in BuiltinPlayed => role[r].active /\ (role[r].there => role[r].system)
       /\ "approval.decide" \in role[r].codes => r \in hist.deciding

(* The row of a sequence is past every reference given, as long as no      *)
(* number was drawn for an earlier year than the one before.               *)
Past(reference, line) ==
    \/ reference[1] < line.year
    \/ reference[1] = line.year /\ reference[2] < line.next

SequenceInv ==
    \A s \in Sequences :
       /\ sequence[s].next = 0 => hist.issued[s] = {}
       /\ s \in hist.twice => s \in hist.back
       /\ s \notin hist.back => \A x \in hist.issued[s] : Past(x, sequence[s])

CurrencyInv == \A c \in Currencies : currency[c] > 0 => currency[c] = hist.first[c]

(* A form is not newer than the company, and bootstrap_client's copy is    *)
(* the company as long as nobody overtakes it.                             *)
FormInv ==
    \A f \in Forms : form[f].there =>
       /\ company.there
       /\ form[f].version <= company.version
       /\ form[f].version = company.version => form[f] = company

CompanyInv ==
    ~hist.overtaken => FormInv /\ (boot.stage # "idle" => boot.company = company)

(* What has just been seeded is what that release seeds. *)
FreshInv ==
    \A n \in hist.fresh :
       /\ company.there
       /\ \A c \in Currencies : currency[c] > 0
       /\ \A s \in Sequences : sequence[s].next > 0
       /\ \A r \in BuiltinPlayed :
             role[r].there /\ role[r].system /\ role[r].codes = BuiltinRoles[n][r]
       /\ boot.stage # "idle" => boot.company = company

IInv ==
    /\ TypeOK /\ EnvironmentComplete
    /\ RoleInv /\ SequenceInv /\ CurrencyInv /\ CompanyInv /\ FreshInv
-----------------------------------------------------------------------------
LEMMA NothingTyped ==
  /\ NoRole \in Role /\ NoUser \in User /\ NoCompany \in Company
  /\ NoSequence \in Row
<1>1. /\ (CHOOSE c \in Currencies : TRUE) \in Currencies
      /\ (CHOOSE z \in Zones : TRUE) \in Zones
  BY SomeCurrency, ClockTypes
<1>2. QED
  BY <1>1 DEF NoRole, NoUser, NoCompany, NoSequence, Role, User, Company, Row

LEMMA InitIInv == Init => IInv
<1> SUFFICES ASSUME Init PROVE IInv
  OBVIOUS
<1>0. /\ NoRole \in Role /\ NoUser \in User /\ NoCompany \in Company
      /\ NoSequence \in Row
  BY NothingTyped
<1>1. TypeOK
  <2>1. Idle \in Boot
    <3>1. NoCompany.currency \in Currencies /\ NoCompany.zone \in Zones
      BY <1>0 DEF Company
    <3>2. QED
      BY <1>0, <3>1, ReleaseType DEF Idle, Boot
  <2>2. hist \in History
    BY DEF Init, History
  <2>3. \A u \in Users : \A r \in user[u].holds : role[r].there
    BY DEF Init, NoUser
  <2>4. QED
    BY <1>0, <2>1, <2>2, <2>3, ReleaseType DEF Init, TypeOK
<1>2. ~company.there /\ boot.stage = "idle" /\ hist.fresh = {}
  BY DEF Init, NoCompany, Idle
<1>3. RoleInv
  BY DEF Init, NoRole, RoleInv
<1>4. SequenceInv /\ CurrencyInv
  BY DEF Init, SequenceInv, CurrencyInv
<1>5. CompanyInv
  BY <1>2 DEF Init, NoCompany, CompanyInv, FormInv
<1>6. EnvironmentComplete /\ FreshInv
  BY <1>2 DEF EnvironmentComplete, FreshInv
<1>7. QED
  BY <1>1, <1>3, <1>4, <1>5, <1>6 DEF IInv
-----------------------------------------------------------------------------
(***************************************************************************)
(* Types.                                                                  *)
(***************************************************************************)
LEMMA Moved ==
  ASSUME TypeOK, NEW h, h = [hist EXCEPT !.fresh = {}, !.changes = @ + 1]
  PROVE  h \in History
<1>1. hist \in History /\ hist.changes + 1 \in Nat
  BY DEF TypeOK, History
<1>2. QED
  BY <1>1 DEF History

LEMMA SavedTyped ==
  ASSUME TypeOK
  PROVE  /\ SavedCompany \in Company /\ SavedCompany.there
         /\ SavedCompany.version \in {boot.company.version, boot.company.version + 1}
<1> DEFINE copy == boot.company
           v == IF copy.there THEN copy.version + 1 ELSE copy.version
<1>1. boot.company \in Company /\ boot.currency \in Currencies /\ boot.zone \in Zones
  BY DEF TypeOK, Boot
<1>2. SavedCompany = [copy EXCEPT !.there = TRUE, !.currency = boot.currency,
                                  !.zone = boot.zone, !.version = v]
  BY DEF SavedCompany
<1>3. v \in Nat /\ v \in {copy.version, copy.version + 1}
  BY <1>1 DEF Company
<1>4. QED
  BY <1>1, <1>2, <1>3 DEF Company

LEMMA CommandTyped ==
  ASSUME TypeOK, Command
  PROVE  TypeOK'
<1> USE DEF data
<1>1. ASSUME NEW c \in Currencies, NEW z \in Zones, NEW n \in 0..MaxRelease,
             Begin(c, z, n)
      PROVE  TypeOK'
  <2> USE <1>1 DEF Begin
  <2>1. boot' \in Boot
    BY DEF TypeOK, Boot
  <2>2. hist' \in History
    BY DEF TypeOK, History
  <2>3. QED
    BY <2>1, <2>2 DEF TypeOK
<1>2. CASE SaveCompany
  BY <1>2 DEF SaveCompany, Proceed, TypeOK, Boot
<1>3. CASE SeedRoles
  BY <1>3 DEF SeedRoles, Proceed, TypeOK, Boot
<1>4. CASE Finish
  <2> USE <1>4 DEF Finish
  <2>1. boot' \in Boot /\ boot.release \in 0..MaxRelease
    <3>1. /\ NoCompany \in Company
          /\ NoCompany.currency \in Currencies /\ NoCompany.zone \in Zones
      BY NothingTyped DEF Company
    <3>2. QED
      BY <3>1, ReleaseType DEF Idle, TypeOK, Boot
  <2>2. company' \in Company
    BY SavedTyped
  <2>3. currency' \in [Currencies -> Nat]
    BY <2>1, SeedTypes DEF SeededCurrency, TypeOK
  <2>4. role' \in [RoleCodes -> Role] /\ \A r \in RoleCodes : role[r].there => role'[r].there
    <3>1. ASSUME NEW r \in RoleCodes, r \in BuiltinPlayed
          PROVE  SeededRole(r) \in Role /\ SeededRole(r).there
      <4>1. BuiltinRoles[boot.release][r] \subseteq Codes
        BY <2>1, <3>1, BuiltinRoleTyped, SeparateCodes
      <4>2. SetPermissions(role[r].codes, BuiltinRoles[boot.release][r])
              = BuiltinRoles[boot.release][r]
        BY Replaced
      <4>3. SeededRole(r) = [role[r] EXCEPT !.there = TRUE, !.system = TRUE,
                                            !.codes = BuiltinRoles[boot.release][r]]
        BY <4>2 DEF SeededRole
      <4>4. role[r] \in Role
        BY DEF TypeOK
      <4>5. QED
        BY <4>1, <4>3, <4>4 DEF Role, Codes
    <3>2. QED
      BY <3>1 DEF TypeOK
  <2>5. sequence' \in [Sequences -> Row]
    BY DEF SeededSequence, TypeOK, Row
  <2>6. hist' \in History
    <3>1. /\ [c \in Currencies |-> IF currency[c] = 0 THEN currency'[c] ELSE hist.first[c]]
                \in [Currencies -> Nat]
          /\ (hist.deciding \ BuiltinPlayed) \cup ({Approver} \cap BuiltinPlayed)
                \in SUBSET RoleCodes
      BY <2>3 DEF TypeOK, History, RoleCodes
    <3>2. {boot.release} \in SUBSET (0..MaxRelease)
      BY <2>1
    <3>3. QED
      BY <3>1, <3>2 DEF TypeOK, History
  <2>7. \A u \in Users : \A r \in user[u].holds : role'[r].there
    BY <2>4 DEF TypeOK, User
  <2>8. QED
    BY <2>1, <2>2, <2>3, <2>4, <2>5, <2>6, <2>7 DEF TypeOK
<1>5. CASE Fail
  <2>1. boot' \in Boot
    <3>1. /\ NoCompany \in Company
          /\ NoCompany.currency \in Currencies /\ NoCompany.zone \in Zones
      BY NothingTyped DEF Company
    <3>2. QED
      BY <1>5, <3>1, ReleaseType DEF Fail, Idle, Boot
  <2>2. QED
    BY <1>5, <2>1 DEF Fail, Undone, TypeOK
<1>6. ASSUME NEW u \in Users, CreateAdmin(u) PROVE TypeOK'
  <2> DEFINE new == [there |-> TRUE, active |-> TRUE, flag |-> TRUE,
                     holds |-> {r \in RoleCodes : r = SystemAdministrator /\ role[r].there}]
  <2>1. new \in User /\ \A r \in new.holds : role[r].there
    BY DEF User
  <2>2. user' = [user EXCEPT ![u] = new]
    BY <1>6 DEF CreateAdmin
  <2>3. hist' \in History
    BY <1>6 DEF CreateAdmin, Busy, TypeOK, History
  <2> HIDE DEF new
  <2>4. user' \in [Users -> User] /\ \A v \in Users : \A r \in user'[v].holds : role[r].there
    BY <2>1, <2>2 DEF TypeOK
  <2>5. QED
    BY <1>6, <2>3, <2>4 DEF CreateAdmin, TypeOK
<1>7. CASE Prune
  <2>1. hist' \in History
    BY <1>7 DEF Prune, Busy, TypeOK, History
  <2>2. role' \in [RoleCodes -> Role] /\ \A r \in RoleCodes : role'[r].there = role[r].there
    BY <1>7 DEF Prune, TypeOK, Role
  <2>3. \A u \in Users : \A r \in user[u].holds : role'[r].there
    BY <2>2 DEF TypeOK, User
  <2>4. QED
    BY <1>7, <2>1, <2>2, <2>3 DEF Prune, TypeOK
<1>8. CASE Roll
  <2>1. hist' \in History
    BY <1>8 DEF Roll, Busy, TypeOK, History
  <2>2. QED
    BY <1>8, <2>1, ReleaseType DEF Roll, TypeOK
<1>9. QED
  BY <1>1, <1>2, <1>3, <1>4, <1>5, <1>6, <1>7, <1>8 DEF Command

(* Some year has begun, and a number is there to be given. *)
LEMMA NumbersTyped ==
  ASSUME TypeOK, NEW s \in Sequences
  PROVE  Year \in Nat /\ Number(s) \in Nat
<1>1. IsFiniteSet({d \in Starts : d <= now + company.zone})
  BY ClockTypes, FS_Subset
<1>2. Cardinality({d \in Starts : d <= now + company.zone}) \in Nat
  BY <1>1, FS_CardinalityType
<1>3. sequence[s] \in Row
  BY DEF TypeOK
<1>4. QED
  BY <1>2, <1>3 DEF Year, Number, Row

LEMMA RequestTyped ==
  ASSUME TypeOK, Request
  PROVE  TypeOK'
<1> USE DEF data
<1>1. ASSUME NEW u \in Users, NEW account \in Accounts,
             user' = [user EXCEPT ![u] = account], Change,
             UNCHANGED <<release, now, currency, company, role, sequence, boot, form>>
      PROVE  TypeOK'
  <2>1. hist' \in History
    BY <1>1, Moved DEF Change
  <2>2. account \in User /\ \A r \in account.holds : role[r].there
    BY DEF Accounts, User, Existing
  <2>3. user' \in [Users -> User] /\ \A v \in Users : \A r \in user'[v].holds : role[r].there
    BY <1>1, <2>2 DEF TypeOK
  <2>4. QED
    BY <1>1, <2>1, <2>3 DEF TypeOK
<1>2. ASSUME NEW u \in Users, CreateUser(u) PROVE TypeOK'
  BY <1>1, <1>2 DEF CreateUser
<1>3. ASSUME NEW actor \in Users, NEW u \in Users, UpdateUser(actor, u) PROVE TypeOK'
  BY <1>1, <1>3 DEF UpdateUser
<1>4. ASSUME NEW r \in RoleCodes, NEW new \in Role, role[r].there => new.there,
             role' = [role EXCEPT ![r] = new], hist' \in History,
             UNCHANGED <<release, now, currency, company, user, sequence, boot, form>>
      PROVE  TypeOK'
  <2>1. role' \in [RoleCodes -> Role] /\ \A p \in RoleCodes : role[p].there => role'[p].there
    BY <1>4 DEF TypeOK
  <2>2. \A u \in Users : \A p \in user[u].holds : role'[p].there
    BY <2>1 DEF TypeOK, User
  <2>3. QED
    BY <1>4, <2>1, <2>2 DEF TypeOK
<1>5. ASSUME NEW r \in RoleCodes, NEW codes, Deciding(r, codes) PROVE hist' \in History
  <2>1. hist \in History /\ hist.changes + 1 \in Nat
        /\ hist.deciding \cup {r} \in SUBSET RoleCodes /\ hist.deciding \ {r} \in SUBSET RoleCodes
    BY DEF TypeOK, History
  <2>2. QED
    BY <1>5, <2>1 DEF Deciding, History
<1>6. ASSUME NEW codes, Known(codes) PROVE codes \subseteq Codes
  BY <1>6, CatalogueTyped DEF Known, TypeOK
<1>7. ASSUME NEW r \in OwnRoles, CreateRole(r) PROVE TypeOK'
  <2>1. PICK active \in BOOLEAN, codes \in Choices :
           Known(codes) /\ role' = [role EXCEPT ![r] = Created(active, codes)] /\ Deciding(r, codes)
    BY <1>7 DEF CreateRole
  <2>2. Created(active, codes) \in Role /\ Created(active, codes).there
    BY <2>1, <1>6 DEF Created, Role, Codes
  <2>3. r \in RoleCodes
    BY DEF RoleCodes
  <2>4. hist' \in History
    BY <2>1, <2>3, <1>5
  <2>5. QED
    BY <1>4, <1>7, <2>1, <2>2, <2>3, <2>4 DEF CreateRole
<1>8. ASSUME NEW r \in RoleCodes, UpdateRole(r) PROVE TypeOK'
  <2>1. PICK active \in BOOLEAN :
           \/ role' = [role EXCEPT ![r].active = active] /\ Change
           \/ \E codes \in Choices :
                 /\ Known(codes) /\ Deciding(r, codes)
                 /\ role' = [role EXCEPT ![r].active = active,
                                         ![r].codes = SetPermissions(@, codes)]
    BY <1>8 DEF UpdateRole
  <2>2. role[r] \in Role
    BY DEF TypeOK
  <2>3. CASE role' = [role EXCEPT ![r].active = active] /\ Change
    <3>1. [role[r] EXCEPT !.active = active] \in Role
      BY <2>2 DEF Role
    <3>2. role' = [role EXCEPT ![r] = [role[r] EXCEPT !.active = active]]
      BY <2>3
    <3>3. hist' \in History
      BY <2>3, Moved DEF Change
    <3>4. QED
      BY <1>4, <1>8, <2>2, <3>1, <3>2, <3>3 DEF UpdateRole, Role
  <2>4. ASSUME NEW codes \in Choices, Known(codes), Deciding(r, codes),
               role' = [role EXCEPT ![r].active = active,
                                    ![r].codes = SetPermissions(@, codes)]
        PROVE  TypeOK'
    <3>1. codes \subseteq Codes
      BY <2>4, <1>6
    <3>2. [role[r] EXCEPT !.active = active, !.codes = codes] \in Role
      BY <2>2, <3>1 DEF Role, Codes
    <3>3. role' = [role EXCEPT ![r] = [role[r] EXCEPT !.active = active, !.codes = codes]]
      BY <2>2, <2>4, Replaced DEF TypeOK, Role
    <3>4. hist' \in History
      BY <2>4, <1>5
    <3>5. QED
      BY <1>4, <1>8, <2>2, <3>2, <3>3, <3>4 DEF UpdateRole, Role
  <2>5. QED
    BY <2>1, <2>3, <2>4
<1>9. ASSUME NEW f \in Forms, OpenForm(f) PROVE TypeOK'
  BY <1>9 DEF OpenForm, TypeOK
<1>10. ASSUME NEW f \in Forms, NEW c \in Currencies, NEW z \in Zones, Patch(f, c, z)
       PROVE  TypeOK'
  <2>1. company \in Company /\ hist \in History /\ hist.changes + 1 \in Nat
        /\ company.version + 2 \in Nat
    BY DEF TypeOK, History, Company
  <2>2. Edited(c, z) \in Company /\ Edited(c, z).version = company.version
    BY <2>1 DEF Edited, Company
  <2>3. company' \in Company
    BY <1>10, <2>1, <2>2 DEF Patch, SavedTwice, Company
  <2>4. hist' \in History
    BY <1>10, <2>1 DEF Patch, History
  <2>5. QED
    BY <1>10, <2>3, <2>4 DEF Patch, TypeOK
<1>11. ASSUME NEW s \in Sequences, Issue(s) PROVE TypeOK'
  <2>1. hist \in History /\ hist.changes + 1 \in Nat
    BY DEF TypeOK, History
  <2>2. Year \in Nat /\ Number(s) \in Nat
    BY NumbersTyped
  <2>3. sequence' \in [Sequences -> Row]
    BY <1>11, <2>2 DEF Issue, TypeOK, Row
  <2>4. hist.issued[s] \cup {<<Year, Number(s)>>} \in SUBSET Reference
    BY <2>1, <2>2 DEF History, Reference
  <2>5. hist' \in History
    BY <1>11, <2>1, <2>4 DEF Issue, History
  <2>6. QED
    BY <1>11, <2>3, <2>5 DEF Issue, TypeOK
<1>12. QED
  BY <1>2, <1>3, <1>7, <1>8, <1>9, <1>10, <1>11 DEF Request

LEMMA NextTyped ==
  ASSUME TypeOK, [Next]_vars
  PROVE  TypeOK'
<1>1. CASE Next
  <2>1. CASE Tick
    BY <2>1 DEF Tick, data, TypeOK
  <2>2. QED
    BY <1>1, <2>1, CommandTyped, RequestTyped DEF Next
<1>2. CASE UNCHANGED vars
  BY <1>2 DEF vars, data, TypeOK
<1>3. QED
  BY <1>1, <1>2

(* Every variable keeps its type, and an account holds roles that exist.   *)
THEOREM ProvisioningTyped == Spec => []TypeOK
<1>1. Init => TypeOK
  BY InitIInv DEF IInv
<1>2. TypeOK /\ [Next]_vars => TypeOK'
  BY NextTyped
<1>3. QED
  BY <1>1, <1>2, PTL DEF Spec
-----------------------------------------------------------------------------
(***************************************************************************)
(* Roles and who may decide.                                               *)
(***************************************************************************)
RolesQuiet == role' = role /\ hist'.deciding = hist.deciding

LEMMA QuietForRoles ==
  ASSUME TypeOK, [Next]_vars
  PROVE  \/ RolesQuiet \/ Finish \/ Prune
         \/ \E r \in OwnRoles : CreateRole(r)
         \/ \E r \in RoleCodes : UpdateRole(r)
<1> USE DEF data, RolesQuiet
<1>0. hist \in History
  BY DEF TypeOK
<1>1. CASE UNCHANGED vars
  BY <1>1 DEF vars
<1>2. CASE Command
  <2>1. ASSUME NEW c \in Currencies, NEW z \in Zones, NEW n \in 0..MaxRelease,
               Begin(c, z, n)
        PROVE  RolesQuiet
    BY <1>0, <2>1 DEF Begin, History
  <2>2. ASSUME SaveCompany \/ SeedRoles \/ Fail PROVE RolesQuiet
    BY <2>2 DEF SaveCompany, SeedRoles, Fail
  <2>3. ASSUME NEW u \in Users, CreateAdmin(u) PROVE RolesQuiet
    BY <1>0, <2>3 DEF CreateAdmin, Busy, History
  <2>4. ASSUME Roll PROVE RolesQuiet
    BY <1>0, <2>4 DEF Roll, Busy, History
  <2>5. QED
    BY <1>2, <2>1, <2>2, <2>3, <2>4 DEF Command
<1>3. CASE Request
  <2>1. ASSUME NEW u \in Users, CreateUser(u) PROVE RolesQuiet
    BY <1>0, <2>1 DEF CreateUser, Change, History
  <2>2. ASSUME NEW actor \in Users, NEW u \in Users, UpdateUser(actor, u) PROVE RolesQuiet
    BY <1>0, <2>2 DEF UpdateUser, Change, History
  <2>3. ASSUME NEW f \in Forms, OpenForm(f) PROVE RolesQuiet
    BY <2>3 DEF OpenForm
  <2>4. ASSUME NEW f \in Forms, NEW c \in Currencies, NEW z \in Zones, Patch(f, c, z)
        PROVE  RolesQuiet
    BY <1>0, <2>4 DEF Patch, History
  <2>5. ASSUME NEW s \in Sequences, Issue(s) PROVE RolesQuiet
    BY <1>0, <2>5 DEF Issue, History
  <2>6. QED
    BY <1>3, <2>1, <2>2, <2>3, <2>4, <2>5 DEF Request
<1>4. CASE Tick
  BY <1>4 DEF Tick
<1>5. QED
  BY <1>1, <1>2, <1>3, <1>4 DEF Next

(* What one role's row and its place in the history become. *)
LEMMA Seeded ==
  ASSUME TypeOK, RoleInv, Finish, NEW r \in BuiltinPlayed
  PROVE  /\ role'[r].there /\ role'[r].system /\ role'[r].active
         /\ role'[r].codes = BuiltinRoles[boot.release][r]
<1>1. role' = [p \in RoleCodes |-> IF p \in BuiltinPlayed THEN SeededRole(p) ELSE role[p]]
  BY DEF Finish
<1>2. r \in RoleCodes /\ role[r] \in Role /\ role[r].active
  BY DEF RoleCodes, TypeOK, RoleInv
<1>3. SetPermissions(role[r].codes, BuiltinRoles[boot.release][r])
        = BuiltinRoles[boot.release][r]
  BY Replaced
<1>4. SeededRole(r) = [role[r] EXCEPT !.there = TRUE, !.system = TRUE,
                                      !.codes = BuiltinRoles[boot.release][r]]
  BY <1>3 DEF SeededRole
<1>5. QED
  BY <1>1, <1>2, <1>4 DEF Role

LEMMA RoleStep ==
  ASSUME TypeOK, RoleInv, [Next]_vars
  PROVE  RoleInv'
<1>0. hist \in History /\ role \in [RoleCodes -> Role]
  BY DEF TypeOK
<1>1. CASE RolesQuiet
  BY <1>1 DEF RolesQuiet, RoleInv
<1>2. CASE Finish
  <2>1. hist'.deciding = (hist.deciding \ BuiltinPlayed) \cup ({Approver} \cap BuiltinPlayed)
    BY <1>0, <1>2 DEF Finish, History
  <2>2. ASSUME NEW r \in BuiltinPlayed
        PROVE  /\ role'[r].active /\ role'[r].system
               /\ "approval.decide" \in role'[r].codes => r \in hist'.deciding
    <3>1. boot.release \in 0..MaxRelease
      BY DEF TypeOK, Boot
    <3>2. r \in BuiltinCodes
      BY SeparateCodes
    <3>3. "approval.decide" \in BuiltinRoles[boot.release][r] => r = Approver
      BY <3>1, <3>2, BuiltinRoleTyped
    <3>4. QED
      BY <1>2, <2>1, <3>3, Seeded
  <2>3. ASSUME NEW r \in RoleCodes, r \notin BuiltinPlayed
        PROVE  "approval.decide" \in role'[r].codes => r \in hist'.deciding
    <3>1. role'[r] = role[r]
      BY <1>0, <1>2, <2>3 DEF Finish
    <3>2. QED
      BY <2>1, <2>3, <3>1 DEF RoleInv
  <2>4. QED
    BY <2>2, <2>3 DEF RoleInv
<1>3. CASE Prune
  <2>1. hist'.deciding = hist.deciding
    BY <1>0, <1>3 DEF Prune, Busy, History
  <2>2. \A r \in RoleCodes : /\ role'[r].there = role[r].there
                             /\ role'[r].active = role[r].active
                             /\ role'[r].system = role[r].system
                             /\ role'[r].codes \subseteq role[r].codes
    BY <1>0, <1>3 DEF Prune, Role
  <2>3. QED
    BY <2>1, <2>2 DEF RoleInv
<1>4. ASSUME NEW r \in OwnRoles, CreateRole(r) PROVE RoleInv'
  <2>1. PICK active \in BOOLEAN, codes \in Choices :
           role' = [role EXCEPT ![r] = Created(active, codes)] /\ Deciding(r, codes)
    BY <1>4 DEF CreateRole
  <2>2. r \in RoleCodes /\ r \notin BuiltinPlayed
    BY SeparateCodes DEF RoleCodes
  <2>3. hist'.deciding = IF "approval.decide" \in codes THEN hist.deciding \cup {r}
                                                        ELSE hist.deciding \ {r}
    BY <1>0, <2>1 DEF Deciding, History
  <2>4. role'[r].codes = codes /\ \A p \in RoleCodes \ {r} : role'[p] = role[p]
    BY <1>0, <2>1, <2>2 DEF Created
  <2>5. QED
    BY <2>2, <2>3, <2>4 DEF RoleInv
<1>5. ASSUME NEW r \in RoleCodes, UpdateRole(r) PROVE RoleInv'
  <2>1. PICK active \in BOOLEAN :
           /\ MayDeactivate(r, active) /\ role[r].there
           /\ \/ role' = [role EXCEPT ![r].active = active] /\ Change
              \/ \E codes \in Choices :
                    /\ Deciding(r, codes)
                    /\ role' = [role EXCEPT ![r].active = active,
                                            ![r].codes = SetPermissions(@, codes)]
    BY <1>5 DEF UpdateRole
  <2>2. r \in BuiltinPlayed => active
    BY <2>1 DEF MayDeactivate, RoleInv
  <2>3. CASE role' = [role EXCEPT ![r].active = active] /\ Change
    <3>1. hist'.deciding = hist.deciding
      BY <1>0, <2>3 DEF Change, History
    <3>2. /\ role'[r].active = active /\ role'[r].system = role[r].system
          /\ role'[r].codes = role[r].codes
          /\ \A p \in RoleCodes \ {r} : role'[p] = role[p]
      BY <1>0, <2>3 DEF Role
    <3>3. QED
      BY <2>1, <2>2, <3>1, <3>2 DEF RoleInv
  <2>4. ASSUME NEW codes \in Choices, Deciding(r, codes),
               role' = [role EXCEPT ![r].active = active,
                                    ![r].codes = SetPermissions(@, codes)]
        PROVE  RoleInv'
    <3>1. hist'.deciding = IF "approval.decide" \in codes THEN hist.deciding \cup {r}
                                                          ELSE hist.deciding \ {r}
      BY <1>0, <2>4 DEF Deciding, History
    <3>2. /\ role'[r].active = active /\ role'[r].system = role[r].system
          /\ role'[r].codes = codes
          /\ \A p \in RoleCodes \ {r} : role'[p] = role[p]
      BY <1>0, <2>4, Replaced DEF Role
    <3>3. QED
      BY <2>1, <2>2, <3>1, <3>2 DEF RoleInv
  <2>5. QED
    BY <2>1, <2>3, <2>4
<1>6. QED
  BY <1>1, <1>2, <1>3, <1>4, <1>5, QuietForRoles

(* An approval can be decided by holders of a role that was given that     *)
(* duty; neither the administrator's flag nor a command gives it away.     *)
LEMMA DecidersFollow ==
  ASSUME TypeOK, RoleInv
  PROVE  DecidersAreGranted
<1> SUFFICES ASSUME NEW u \in Users, "approval.decide" \in PermissionCodes(u)
             PROVE  \E r \in user[u].holds : role[r].active /\ r \in hist.deciding
  BY DEF DecidersAreGranted
<1>1. "approval.decide" \in Stored(u)
  BY DEF PermissionCodes, Resolved
<1>2. "approval.decide" \notin AdministratorCodes
  BY DEF AdministratorCodes, AdministratorExcluded
<1>3. PICK r \in user[u].holds : "approval.decide" \in Granted(r)
  <2>1. "approval.decide" \in UNION {Granted(r) : r \in user[u].holds}
    BY <1>1, <1>2 DEF Stored
  <2>2. QED
    BY <2>1
<1>4. r \in RoleCodes
  BY DEF TypeOK, User
<1>5. role[r].active /\ "approval.decide" \in role[r].codes
  BY <1>3 DEF Granted
<1>6. QED
  BY <1>4, <1>5 DEF RoleInv

(* Nobody may decide approvals but by an active role that was given that   *)
(* duty, for any accounts, roles and catalogues.                           *)
THEOREM DutySegregated == Spec => []DecidersAreGranted
<1> DEFINE Inv == TypeOK /\ RoleInv
<1>1. Init => Inv
  BY InitIInv DEF IInv
<1>2. Inv /\ [Next]_vars => Inv'
  BY NextTyped, RoleStep
<1>3. Inv => DecidersAreGranted
  BY DecidersFollow
<1>4. QED
  BY <1>1, <1>2, <1>3, PTL DEF Spec
-----------------------------------------------------------------------------
(***************************************************************************)
(* Numbers and currencies.                                                 *)
(***************************************************************************)
Ledger == <<sequence, currency, hist.issued, hist.twice, hist.back, hist.first>>

LEMMA QuietForLedger ==
  ASSUME TypeOK, [Next]_vars
  PROVE  UNCHANGED Ledger \/ Finish \/ \E s \in Sequences : Issue(s)
<1> USE DEF data, Ledger
<1>0. hist \in History
  BY DEF TypeOK
<1>1. CASE UNCHANGED vars
  BY <1>1 DEF vars
<1>2. CASE Command
  <2>1. ASSUME NEW c \in Currencies, NEW z \in Zones, NEW n \in 0..MaxRelease,
               Begin(c, z, n)
        PROVE  UNCHANGED Ledger
    BY <1>0, <2>1 DEF Begin, History
  <2>2. ASSUME SaveCompany \/ SeedRoles \/ Fail PROVE UNCHANGED Ledger
    BY <2>2 DEF SaveCompany, SeedRoles, Fail
  <2>3. ASSUME NEW u \in Users, CreateAdmin(u) PROVE UNCHANGED Ledger
    BY <1>0, <2>3 DEF CreateAdmin, Busy, History
  <2>4. ASSUME Prune \/ Roll PROVE UNCHANGED Ledger
    BY <1>0, <2>4 DEF Prune, Roll, Busy, History
  <2>5. QED
    BY <1>2, <2>1, <2>2, <2>3, <2>4 DEF Command
<1>3. CASE Request
  <2>1. ASSUME NEW u \in Users, CreateUser(u) PROVE UNCHANGED Ledger
    BY <1>0, <2>1 DEF CreateUser, Change, History
  <2>2. ASSUME NEW actor \in Users, NEW u \in Users, UpdateUser(actor, u) PROVE UNCHANGED Ledger
    BY <1>0, <2>2 DEF UpdateUser, Change, History
  <2>3. ASSUME NEW r \in OwnRoles, CreateRole(r) PROVE UNCHANGED Ledger
    BY <1>0, <2>3 DEF CreateRole, Deciding, History
  <2>4. ASSUME NEW r \in RoleCodes, UpdateRole(r) PROVE UNCHANGED Ledger
    BY <1>0, <2>4 DEF UpdateRole, Deciding, Change, History
  <2>5. ASSUME NEW f \in Forms, OpenForm(f) PROVE UNCHANGED Ledger
    BY <2>5 DEF OpenForm
  <2>6. ASSUME NEW f \in Forms, NEW c \in Currencies, NEW z \in Zones, Patch(f, c, z)
        PROVE  UNCHANGED Ledger
    BY <1>0, <2>6 DEF Patch, History
  <2>7. QED
    BY <1>3, <2>1, <2>2, <2>3, <2>4, <2>5, <2>6 DEF Request
<1>4. CASE Tick
  BY <1>4 DEF Tick
<1>5. QED
  BY <1>1, <1>2, <1>3, <1>4 DEF Next

(* A reference is new, and the row past it and past those before, unless   *)
(* the year is an earlier one.                                             *)
LEMMA NewReference ==
  ASSUME TypeOK, NEW s \in Sequences, Year >= sequence[s].year,
         \A x \in hist.issued[s] : Past(x, sequence[s]),
         NEW line, line = [next |-> Number(s) + 1, year |-> Year]
  PROVE  /\ <<Year, Number(s)>> \notin hist.issued[s]
         /\ \A x \in hist.issued[s] \cup {<<Year, Number(s)>>} : Past(x, line)
<1>1. /\ Year \in Nat /\ Number(s) \in Nat
      /\ sequence[s].year \in Nat /\ sequence[s].next \in Nat
      /\ \A x \in hist.issued[s] : x[1] \in Nat /\ x[2] \in Nat
  BY NumbersTyped DEF TypeOK, Row, History, Reference
<1>2. line.year = Year /\ line.next = Number(s) + 1
  OBVIOUS
<1>3. Year = sequence[s].year => Number(s) = sequence[s].next
  BY DEF Number
<1>4. ASSUME NEW x \in hist.issued[s] PROVE Past(x, line) /\ x # <<Year, Number(s)>>
  <2>1. Past(x, sequence[s])
    OBVIOUS
  <2>2. \/ x[1] < Year
        \/ x[1] = Year /\ x[2] < Number(s)
    BY <1>1, <1>3, <2>1 DEF Past
  <2>3. QED
    BY <1>1, <1>2, <2>2 DEF Past
<1>5. Past(<<Year, Number(s)>>, line)
  BY <1>1, <1>2 DEF Past
<1>6. QED
  BY <1>4, <1>5

LEMMA LedgerStep ==
  ASSUME TypeOK, SequenceInv, CurrencyInv, [Next]_vars
  PROVE  SequenceInv' /\ CurrencyInv'
<1>0. /\ hist \in History /\ sequence \in [Sequences -> Row]
      /\ currency \in [Currencies -> Nat] /\ hist.first \in [Currencies -> Nat]
      /\ hist.issued \in [Sequences -> SUBSET Reference]
  BY DEF TypeOK, History
<1>1. CASE UNCHANGED Ledger
  BY <1>1 DEF Ledger, SequenceInv, CurrencyInv
<1>2. CASE Finish
  <2>1. /\ hist'.issued = hist.issued /\ hist'.twice = hist.twice /\ hist'.back = hist.back
        /\ hist'.first = [c \in Currencies |-> IF currency[c] = 0 THEN currency'[c]
                                                             ELSE hist.first[c]]
    BY <1>0, <1>2 DEF Finish, History
  <2>2. SequenceInv'
    <3>1. ASSUME NEW s \in Sequences
          PROVE  \/ sequence'[s] = sequence[s]
                 \/ hist.issued[s] = {} /\ sequence'[s].next = 1
      BY <1>0, <1>2 DEF Finish, SeededSequence, SequenceInv
    <3>2. QED
      BY <2>1, <3>1 DEF SequenceInv
  <2>3. ASSUME NEW c \in Currencies PROVE currency'[c] > 0 => currency'[c] = hist'.first[c]
    <3>1. CASE currency[c] = 0
      BY <2>1, <3>1
    <3>2. CASE currency[c] > 0
      BY <1>0, <1>2, <2>1, <3>2 DEF Finish, SeededCurrency, CurrencyInv
    <3>3. QED
      BY <1>0, <3>1, <3>2
  <2>4. QED
    BY <2>2, <2>3 DEF CurrencyInv
<1>3. ASSUME NEW s \in Sequences, Issue(s) PROVE SequenceInv' /\ CurrencyInv'
  <2> DEFINE reference == <<Year, Number(s)>>
             line == [next |-> Number(s) + 1, year |-> Year]
  <2>1. /\ sequence' = [sequence EXCEPT ![s] = line]
        /\ hist'.issued = [hist.issued EXCEPT ![s] = @ \cup {reference}]
        /\ hist'.twice = IF reference \in hist.issued[s] THEN hist.twice \cup {s} ELSE hist.twice
        /\ hist'.back = IF Year < sequence[s].year THEN hist.back \cup {s} ELSE hist.back
        /\ hist'.first = hist.first /\ currency' = currency
    BY <1>0, <1>3 DEF Issue, History
  <2>2. Year \in Nat /\ Number(s) \in Nat /\ sequence[s].year \in Nat
    BY <1>0, NumbersTyped DEF Row
  <2>3. /\ sequence'[s] = line /\ hist'.issued[s] = hist.issued[s] \cup {reference}
        /\ line.next > 0
    BY <1>0, <2>1, <2>2
  <2>4. CASE s \in hist'.back
    <3>1. \A t \in Sequences \ {s} :
             /\ sequence'[t] = sequence[t] /\ hist'.issued[t] = hist.issued[t]
             /\ t \in hist'.back <=> t \in hist.back
             /\ t \in hist'.twice <=> t \in hist.twice
      BY <1>0, <2>1
    <3>2. SequenceInv'
      BY <2>3, <2>4, <3>1 DEF SequenceInv
    <3>3. QED
      BY <2>1, <3>2 DEF CurrencyInv
  <2>5. CASE s \notin hist'.back
    <3>1. s \notin hist.back /\ Year >= sequence[s].year
      BY <2>1, <2>2, <2>5
    <3>2. /\ reference \notin hist.issued[s]
          /\ \A x \in hist'.issued[s] : Past(x, line)
      <4>1. \A x \in hist.issued[s] : Past(x, sequence[s])
        BY <3>1 DEF SequenceInv
      <4>2. QED
        BY <2>3, <3>1, <4>1, NewReference
    <3>3. hist'.twice = hist.twice /\ hist'.back = hist.back
      BY <2>1, <2>5, <3>1, <3>2
    <3>4. \A t \in Sequences \ {s} :
             sequence'[t] = sequence[t] /\ hist'.issued[t] = hist.issued[t]
      BY <1>0, <2>1
    <3>5. SequenceInv'
      BY <2>3, <3>1, <3>2, <3>3, <3>4 DEF SequenceInv
    <3>6. QED
      BY <2>1, <3>5 DEF CurrencyInv
  <2>6. QED
    BY <2>4, <2>5
<1>4. QED
  BY <1>1, <1>2, <1>3, QuietForLedger

LEMMA LedgerKept ==
  ASSUME TypeOK, SequenceInv, CurrencyInv
  PROVE  HistoryKept
<1>0. currency \in [Currencies -> Nat] /\ Amounts \subseteq Nat
  BY BoundTypes DEF TypeOK
<1>1. hist.twice \subseteq hist.back
  BY DEF SequenceInv, TypeOK, History
<1>2. ASSUME NEW c \in Currencies, currency[c] > 0, NEW x \in Amounts, NEW mode \in RoundingModes
      PROVE  LET amount == RoundMoney(x, hist.first[c], mode)
             IN  FormatMoney(amount, currency[c]) = amount
  <2>1. hist.first[c] = currency[c] /\ currency[c] \in Nat \ {0} /\ x \in Int
    BY <1>0, <1>2 DEF CurrencyInv
  <2>2. QED
    BY <2>1, PrintsAsRounded
<1>3. QED
  BY <1>1, <1>2 DEF HistoryKept

(* However often the environment is seeded again, an amount prints as it   *)
(* was, and a sequence gives no reference twice unless it has drawn for an *)
(* earlier year than one it had drawn for, which takes a time zone moved   *)
(* west; for any currencies, precisions, sequences, years and zones.       *)
THEOREM HistoryNeverRestated == Spec => []HistoryKept
<1> DEFINE Inv == TypeOK /\ SequenceInv /\ CurrencyInv
<1>1. Init => Inv
  BY InitIInv DEF IInv
<1>2. Inv /\ [Next]_vars => Inv'
  BY NextTyped, LedgerStep
<1>3. Inv => HistoryKept
  BY LedgerKept
<1>4. QED
  BY <1>1, <1>2, <1>3, PTL DEF Spec
-----------------------------------------------------------------------------
(***************************************************************************)
(* The company and its forms.                                              *)
(***************************************************************************)
LEMMA CompanyCommandStep ==
  ASSUME TypeOK, CompanyInv, Command
  PROVE  CompanyInv'
<1> USE DEF data
<1>0. hist \in History /\ boot \in Boot /\ company \in Company
  BY DEF TypeOK
<1>1. ASSUME company' = company, form' = form, hist'.overtaken = hist.overtaken,
             boot'.stage # "idle" => boot.stage # "idle" /\ boot'.company = boot.company
      PROVE  CompanyInv'
  BY <1>1 DEF CompanyInv, FormInv
<1>2. ASSUME NEW c \in Currencies, NEW z \in Zones, NEW n \in 0..MaxRelease,
             Begin(c, z, n)
      PROVE  CompanyInv'
  <2>1. hist'.overtaken = hist.overtaken /\ boot'.company = company
    BY <1>0, <1>2 DEF Begin, History
  <2>2. QED
    BY <1>2, <2>1 DEF Begin, CompanyInv, FormInv
<1>3. ASSUME SaveCompany \/ SeedRoles PROVE CompanyInv'
  BY <1>0, <1>1, <1>3 DEF SaveCompany, SeedRoles, Proceed, Boot
<1>4. CASE Finish
  <2>1. hist'.overtaken = hist.overtaken /\ boot'.stage = "idle"
    BY <1>0, <1>4 DEF Finish, History, Idle
  <2>2. ASSUME ~hist.overtaken, NEW f \in Forms, form[f].there
        PROVE  company'.there /\ form[f].version < company'.version
    <3>1. /\ boot.company = company /\ company.there
          /\ form[f].version <= company.version
      BY <1>4, <2>2 DEF Finish, CompanyInv, FormInv
    <3>2. company' = [company EXCEPT !.there = TRUE, !.currency = boot.currency,
                                     !.zone = boot.zone, !.version = company.version + 1]
      BY <1>4, <3>1 DEF Finish, SavedCompany
    <3>3. company'.there /\ company'.version = company.version + 1
      BY <1>0, <3>2 DEF Company
    <3>4. form[f].version \in Nat /\ company.version \in Nat
      BY DEF TypeOK, Company
    <3>5. QED
      BY <3>1, <3>3, <3>4
  <2>3. \A f \in Forms : form[f].version \in Nat
    BY DEF TypeOK, Company
  <2>4. company'.version \in Nat
    BY <1>4, SavedTyped DEF Finish, Company
  <2>5. QED
    BY <1>4, <2>1, <2>2, <2>3, <2>4 DEF Finish, CompanyInv, FormInv
<1>5. CASE Fail
  BY <1>1, <1>5 DEF Fail, Undone, Idle
<1>6. ASSUME NEW u \in Users, CreateAdmin(u) PROVE CompanyInv'
  BY <1>0, <1>1, <1>6 DEF CreateAdmin, Busy, History
<1>7. ASSUME Prune \/ Roll PROVE CompanyInv'
  BY <1>0, <1>1, <1>7 DEF Prune, Roll, Busy, History
<1>8. QED
  BY <1>2, <1>3, <1>4, <1>5, <1>6, <1>7 DEF Command

LEMMA CompanyRequestStep ==
  ASSUME TypeOK, CompanyInv, Request
  PROVE  CompanyInv'
<1> USE DEF data
<1>0. hist \in History /\ boot \in Boot /\ company \in Company
  BY DEF TypeOK
<1>1. ASSUME company' = company, form' = form, boot' = boot, hist'.overtaken = hist.overtaken
      PROVE  CompanyInv'
  BY <1>1 DEF CompanyInv, FormInv
<1>2. ASSUME NEW u \in Users, CreateUser(u) PROVE CompanyInv'
  BY <1>0, <1>1, <1>2 DEF CreateUser, Change, History
<1>3. ASSUME NEW actor \in Users, NEW u \in Users, UpdateUser(actor, u) PROVE CompanyInv'
  BY <1>0, <1>1, <1>3 DEF UpdateUser, Change, History
<1>4. ASSUME NEW r \in OwnRoles, CreateRole(r) PROVE CompanyInv'
  BY <1>0, <1>1, <1>4 DEF CreateRole, Deciding, History
<1>5. ASSUME NEW r \in RoleCodes, UpdateRole(r) PROVE CompanyInv'
  BY <1>0, <1>1, <1>5 DEF UpdateRole, Deciding, Change, History
<1>6. ASSUME NEW f \in Forms, OpenForm(f) PROVE CompanyInv'
  <2>1. form' = [form EXCEPT ![f] = company] /\ company' = company /\ boot' = boot
        /\ hist' = hist /\ company.there
    BY <1>6 DEF OpenForm, ByPermission, CompanyFound
  <2>2. company.version \in Nat
    BY <1>0 DEF Company
  <2>3. QED
    BY <2>1, <2>2 DEF TypeOK, CompanyInv, FormInv
<1>7. ASSUME NEW f \in Forms, NEW c \in Currencies, NEW z \in Zones, Patch(f, c, z)
      PROVE  CompanyInv'
  <2>1. /\ company.there /\ ~CompanyLocked /\ form' = form /\ boot' = boot
        /\ hist'.overtaken = (hist.overtaken \/ boot.stage = "company")
    BY <1>0, <1>7 DEF Patch, ByPermission, CompanyFound, History
  <2>2. ~hist'.overtaken => boot.stage = "idle" /\ ~hist.overtaken
    BY <1>0, <2>1 DEF CompanyLocked, Boot
  <2>3. company'.there /\ company'.version = company.version + 2
    <3>1. hist.changes + 1 \in Nat
      BY <1>0 DEF History
    <3>2. Edited(c, z) \in Company /\ Edited(c, z).there /\ Edited(c, z).version = company.version
      BY <1>0, <2>1, <3>1 DEF Edited, Company
    <3>3. QED
      BY <1>7, <3>2 DEF Patch, SavedTwice, Company
  <2>4. company.version \in Nat /\ \A g \in Forms : form[g].version \in Nat
    BY <1>0 DEF TypeOK, Company
  <2>5. QED
    BY <2>1, <2>2, <2>3, <2>4 DEF CompanyInv, FormInv
<1>8. ASSUME NEW s \in Sequences, Issue(s) PROVE CompanyInv'
  BY <1>0, <1>1, <1>8 DEF Issue, History
<1>9. QED
  BY <1>2, <1>3, <1>4, <1>5, <1>6, <1>7, <1>8 DEF Request

LEMMA CompanyStep ==
  ASSUME TypeOK, CompanyInv, [Next]_vars
  PROVE  CompanyInv'
<1>1. CASE UNCHANGED vars
  BY <1>1 DEF vars, data, CompanyInv, FormInv
<1>2. CASE Tick
  BY <1>2 DEF Tick, data, CompanyInv, FormInv
<1>3. QED
  BY <1>1, <1>2, CompanyCommandStep, CompanyRequestStep DEF Next

(* A form of the company whose version is the company's shows its latest   *)
(* settings, unless a PATCH has overtaken bootstrap_client.                *)
THEOREM FormsNeverOutdated == Spec => []CompanyFormsFresh
<1> DEFINE Inv == TypeOK /\ CompanyInv
<1>1. Init => Inv
  BY InitIInv DEF IInv
<1>2. Inv /\ [Next]_vars => Inv'
  BY NextTyped, CompanyStep
<1>3. Inv => CompanyFormsFresh
  BY DEF CompanyInv, FormInv, CompanyFormsFresh
<1>4. QED
  BY <1>1, <1>2, <1>3, PTL DEF Spec
-----------------------------------------------------------------------------
(***************************************************************************)
(* The environment as a whole.                                             *)
(***************************************************************************)
(* A role that exists stays, and so does the company. *)
LEMMA RolesStay ==
  ASSUME TypeOK, [Next]_vars, NEW r \in RoleCodes, role[r].there
  PROVE  role'[r].there
<1>0. role \in [RoleCodes -> Role]
  BY DEF TypeOK
<1>1. CASE RolesQuiet
  BY <1>1 DEF RolesQuiet
<1>2. CASE Finish
  <2>1. SeededRole(r).there
    BY <1>0 DEF SeededRole, Role
  <2>2. QED
    BY <1>2, <2>1 DEF Finish
<1>3. CASE Prune
  BY <1>0, <1>3 DEF Prune, Role
<1>4. ASSUME NEW p \in OwnRoles, CreateRole(p) PROVE role'[r].there
  BY <1>0, <1>4 DEF CreateRole, Created
<1>5. ASSUME NEW p \in RoleCodes, UpdateRole(p) PROVE role'[r].there
  <2>1. PICK active \in BOOLEAN :
           \/ role' = [role EXCEPT ![p].active = active]
           \/ \E codes \in Choices :
                 role' = [role EXCEPT ![p].active = active,
                                      ![p].codes = SetPermissions(@, codes)]
    BY <1>5 DEF UpdateRole
  <2>2. QED
    BY <1>0, <2>1 DEF Role
<1>6. QED
  BY <1>1, <1>2, <1>3, <1>4, <1>5, QuietForRoles

(* What a step other than the end of bootstrap_client leaves to a freshly  *)
(* seeded environment.                                                     *)
Untouched ==
    /\ UNCHANGED <<currency, company, role, sequence>> /\ hist'.fresh = hist.fresh
    /\ boot'.stage # "idle" => \/ boot'.company = company
                               \/ boot.stage # "idle" /\ boot'.company = boot.company

LEMMA FreshOrTouched ==
  ASSUME TypeOK, [Next]_vars
  PROVE  Finish \/ (company'.there = company.there /\ (Untouched \/ hist'.fresh = {}))
<1> USE DEF data, Untouched
<1>0. hist \in History /\ boot \in Boot /\ company \in Company
  BY DEF TypeOK
<1> DEFINE Goal == company'.there = company.there /\ (Untouched \/ hist'.fresh = {})
<1>1. CASE UNCHANGED vars
  BY <1>1 DEF vars
<1>2. ASSUME Command, ~Finish PROVE Goal
  <2>1. ASSUME NEW c \in Currencies, NEW z \in Zones, NEW n \in 0..MaxRelease,
               Begin(c, z, n)
        PROVE  Goal
    BY <1>0, <2>1 DEF Begin, History
  <2>2. ASSUME SaveCompany \/ SeedRoles PROVE Goal
    BY <1>0, <2>2 DEF SaveCompany, SeedRoles, Proceed, Boot
  <2>3. ASSUME Fail PROVE Goal
    BY <2>3 DEF Fail, Undone, Idle
  <2>4. ASSUME NEW u \in Users, CreateAdmin(u) PROVE Goal
    BY <1>0, <2>4 DEF CreateAdmin, Busy, History
  <2>5. ASSUME Prune \/ Roll PROVE Goal
    BY <1>0, <2>5 DEF Prune, Roll, Busy, History
  <2>6. QED
    BY <1>2, <2>1, <2>2, <2>3, <2>4, <2>5 DEF Command
<1>3. CASE Request
  <2>1. ASSUME NEW u \in Users, CreateUser(u) PROVE Goal
    BY <1>0, <2>1 DEF CreateUser, Change, History
  <2>2. ASSUME NEW actor \in Users, NEW u \in Users, UpdateUser(actor, u) PROVE Goal
    BY <1>0, <2>2 DEF UpdateUser, Change, History
  <2>3. ASSUME NEW r \in OwnRoles, CreateRole(r) PROVE Goal
    BY <1>0, <2>3 DEF CreateRole, Deciding, History
  <2>4. ASSUME NEW r \in RoleCodes, UpdateRole(r) PROVE Goal
    BY <1>0, <2>4 DEF UpdateRole, Deciding, Change, History
  <2>5. ASSUME NEW f \in Forms, OpenForm(f) PROVE Goal
    BY <2>5 DEF OpenForm
  <2>6. ASSUME NEW f \in Forms, NEW c \in Currencies, NEW z \in Zones, Patch(f, c, z)
        PROVE  Goal
    <3>1. company'.there = company.there
      <4>1. company' = [Edited(c, z) EXCEPT !.version = SavedTwice(@)]
        BY <2>6 DEF Patch
      <4>2. Edited(c, z).there = company.there
        BY <1>0 DEF Edited, Company
      <4>3. QED
        BY <4>1, <4>2, <1>0 DEF Edited, Company
    <3>2. QED
      BY <1>0, <2>6, <3>1 DEF Patch, History
  <2>7. ASSUME NEW s \in Sequences, Issue(s) PROVE Goal
    BY <1>0, <2>7 DEF Issue, History
  <2>8. QED
    BY <1>3, <2>1, <2>2, <2>3, <2>4, <2>5, <2>6, <2>7 DEF Request
<1>4. CASE Tick
  BY <1>4 DEF Tick
<1>5. QED
  BY <1>1, <1>2, <1>3, <1>4 DEF Next

(* What the end of bootstrap_client leaves. *)
LEMMA SeedingCompletes ==
  ASSUME TypeOK, RoleInv, Finish
  PROVE  /\ company'.there
         /\ \A c \in Currencies : currency'[c] > 0
         /\ \A s \in Sequences : sequence'[s].next > 0
         /\ \A r \in BuiltinPlayed :
               /\ role'[r].there /\ role'[r].system /\ role'[r].active
               /\ role'[r].codes = BuiltinRoles[boot.release][r]
<1>1. company'.there
  BY SavedTyped DEF Finish
<1>2. ASSUME NEW c \in Currencies PROVE currency'[c] > 0
  <2>1. Quantum[boot.release][c] \in Nat \ {0} /\ currency[c] \in Nat
    BY SeedTypes DEF TypeOK, Boot
  <2>2. currency'[c] = SeededCurrency(c)
    BY DEF Finish
  <2>3. QED
    BY <2>1, <2>2 DEF SeededCurrency
<1>3. ASSUME NEW s \in Sequences PROVE sequence'[s].next > 0
  BY DEF Finish, SeededSequence, TypeOK, Row
<1>4. QED
  BY <1>1, <1>2, <1>3, Seeded

LEMMA CompleteStep ==
  ASSUME IInv, [Next]_vars
  PROVE  EnvironmentComplete'
<1>0. TypeOK /\ RoleInv /\ RoleInv' /\ EnvironmentComplete
  BY RoleStep DEF IInv
<1>1. CASE Finish
  BY <1>0, <1>1, SeedingCompletes DEF EnvironmentComplete
<1>2. ASSUME ~Finish, company'.there PROVE EnvironmentComplete'
  <2>1. /\ \A c \in Currencies : currency[c] > 0
        /\ \A s \in Sequences : sequence[s].next > 0
        /\ \A r \in BuiltinPlayed : role[r].there
    BY <1>0, <1>2, FreshOrTouched DEF EnvironmentComplete
  <2>2. \A r \in BuiltinPlayed : role'[r].there /\ role'[r].system /\ role'[r].active
    BY <1>0, <2>1, RolesStay DEF RoleInv, RoleCodes
  <2>3. /\ \A c \in Currencies : currency'[c] > 0
        /\ \A s \in Sequences : sequence'[s].next > 0
    <3>1. CASE UNCHANGED Ledger
      BY <2>1, <3>1 DEF Ledger
    <3>2. ASSUME NEW s \in Sequences, Issue(s)
          PROVE  /\ \A c \in Currencies : currency'[c] > 0
                 /\ \A t \in Sequences : sequence'[t].next > 0
      BY <1>0, <2>1, <3>2, NumbersTyped DEF Issue, TypeOK, Row
    <3>3. QED
      BY <1>0, <1>2, <3>1, <3>2, QuietForLedger
  <2>4. QED
    BY <2>2, <2>3 DEF EnvironmentComplete
<1>3. QED
  BY <1>1, <1>2 DEF EnvironmentComplete

LEMMA FreshStep ==
  ASSUME IInv, [Next]_vars
  PROVE  FreshInv'
<1>0. TypeOK /\ RoleInv /\ FreshInv
  BY DEF IInv
<1>1. CASE Finish
  <2>1. hist'.fresh = {boot.release} /\ boot'.stage = "idle"
    BY <1>0, <1>1 DEF Finish, TypeOK, History, Idle
  <2>2. QED
    BY <1>0, <1>1, <2>1, SeedingCompletes DEF FreshInv
<1>2. CASE Untouched
  BY <1>0, <1>2 DEF Untouched, FreshInv
<1>3. CASE hist'.fresh = {}
  BY <1>3 DEF FreshInv
<1>4. QED
  BY <1>0, <1>1, <1>2, <1>3, FreshOrTouched

LEMMA NextIInv ==
  ASSUME IInv, [Next]_vars
  PROVE  IInv'
<1>1. TypeOK' /\ RoleInv' /\ CompanyInv' /\ SequenceInv' /\ CurrencyInv'
  BY NextTyped, RoleStep, CompanyStep, LedgerStep DEF IInv
<1>2. QED
  BY <1>1, CompleteStep, FreshStep DEF IInv

(* A company has all it needs from the moment it is there, however         *)
(* bootstrap_client ends and whatever administrators do.                   *)
THEOREM EnvironmentStaysComplete == Spec => []EnvironmentComplete
<1>1. IInv => EnvironmentComplete
  BY DEF IInv
<1>2. QED
  BY <1>1, InitIInv, NextIInv, PTL DEF Spec
-----------------------------------------------------------------------------
(***************************************************************************)
(* Housekeeping.                                                           *)
(***************************************************************************)
(* Seeding a release over what it has just seeded. *)
LEMMA SeedingAgain ==
  ASSUME TypeOK, FreshInv, Finish,
         boot.release \in hist.fresh, boot.currency = company.currency,
         boot.zone = company.zone
  PROVE  /\ UNCHANGED <<currency, role, user, sequence>>
         /\ company' = [company EXCEPT !.version = @ + 1]
<1>1. /\ company.there /\ boot.company = company
      /\ \A c \in Currencies : currency[c] > 0
      /\ \A s \in Sequences : sequence[s].next > 0
      /\ \A r \in BuiltinPlayed :
            /\ role[r].there /\ role[r].system
            /\ role[r].codes = BuiltinRoles[boot.release][r]
  BY DEF FreshInv, Finish
<1>2. currency' = currency
  <2>1. \A c \in Currencies : SeededCurrency(c) = currency[c]
    BY <1>1 DEF SeededCurrency
  <2>2. QED
    BY <2>1 DEF Finish, TypeOK
<1>3. sequence' = sequence
  <2>1. \A s \in Sequences : SeededSequence(s) = sequence[s]
    BY <1>1 DEF SeededSequence
  <2>2. QED
    BY <2>1 DEF Finish, TypeOK
<1>4. role' = role
  <2>1. ASSUME NEW r \in BuiltinPlayed PROVE SeededRole(r) = role[r]
    <3>1. SetPermissions(role[r].codes, BuiltinRoles[boot.release][r]) = role[r].codes
      BY <1>1, Replaced
    <3>2. SeededRole(r) = [role[r] EXCEPT !.there = TRUE, !.system = TRUE,
                                          !.codes = role[r].codes]
      BY <3>1 DEF SeededRole
    <3>3. role[r] \in Role
      BY DEF TypeOK, RoleCodes
    <3>4. QED
      BY <1>1, <3>2, <3>3 DEF Role
  <2>2. QED
    BY <2>1 DEF Finish, TypeOK
<1>5. company' = [company EXCEPT !.version = company.version + 1]
  <2>1. company \in Company
    BY DEF TypeOK
  <2>2. company' = [company EXCEPT !.there = TRUE, !.currency = company.currency,
                                   !.zone = company.zone, !.version = company.version + 1]
    BY <1>1 DEF Finish, SavedCompany
  <2>3. QED
    BY <1>1, <2>1, <2>2 DEF Company
<1>6. QED
  BY <1>2, <1>3, <1>4, <1>5 DEF Finish

(* The codes that are pruned resolve to nothing as it is. *)
LEMMA PruningKeeps ==
  ASSUME TypeOK, Prune, NEW u \in Users
  PROVE  PermissionCodes(u)' = PermissionCodes(u)
<1>1. /\ release' = release /\ user' = user
      /\ role' = [r \in RoleCodes |->
                    [role[r] EXCEPT !.codes = role[r].codes \ Stale(r)]]
  BY DEF Prune
<1>2. ASSUME NEW r \in RoleCodes
      PROVE  /\ role'[r].there = role[r].there /\ role'[r].active = role[r].active
             /\ role'[r].codes \cap AllPermissionCodes[release]
                  = role[r].codes \cap AllPermissionCodes[release]
  <2>1. role[r] \in Role
    BY DEF TypeOK
  <2>2. role'[r] = [role[r] EXCEPT !.codes = role[r].codes \ Stale(r)]
    BY <1>1
  <2>3. QED
    BY <2>1, <2>2 DEF Role, Stale
<1>3. user[u].holds \subseteq RoleCodes
  BY DEF TypeOK, User
<1> DEFINE before == UNION {Granted(r) : r \in user[u].holds}
           after == UNION {Granted(r)' : r \in user[u].holds}
<1>4. ASSUME NEW r \in RoleCodes
      PROVE  (Granted(r) \cap AllPermissionCodes[release])'
               = Granted(r) \cap AllPermissionCodes[release]
  BY <1>1, <1>2 DEF Granted
<1>5. after \cap AllPermissionCodes[release] = before \cap AllPermissionCodes[release]
  <2>1. ASSUME NEW x \in AllPermissionCodes[release], NEW r \in user[u].holds
        PROVE  x \in Granted(r)' <=> x \in Granted(r)
    BY <1>1, <1>3, <1>4
  <2>2. QED
    BY <2>1
<1>6. Stored(u)' = after \cup (IF user[u].flag THEN AdministratorCodes ELSE {})
  BY <1>1 DEF Stored, AdministratorCodes
<1>7. Stored(u) = before \cup (IF user[u].flag THEN AdministratorCodes ELSE {})
  BY DEF Stored
<1>8. Stored(u)' \cap AllPermissionCodes[release] = Stored(u) \cap AllPermissionCodes[release]
  BY <1>5, <1>6, <1>7
<1>9. QED
  BY <1>1, <1>8 DEF PermissionCodes, Resolved

(* Running bootstrap_client again leaves all but the version, and pruning  *)
(* leaves everybody's permissions.                                         *)
THEOREM HousekeepingIsHarmless == Spec => HousekeepingOnly
<1>1. ASSUME IInv, [Next]_vars
      PROVE  /\ boot.release \in hist.fresh /\ boot.currency = company.currency
                /\ boot.zone = company.zone /\ Finish =>
                   /\ UNCHANGED <<currency, role, user, sequence>>
                   /\ company' = [company EXCEPT !.version = @ + 1]
             /\ Prune => \A u \in Users : PermissionCodes(u)' = PermissionCodes(u)
  BY <1>1, SeedingAgain, PruningKeeps DEF IInv
<1>2. QED
  BY <1>1, InitIInv, NextIInv, PTL DEF Spec, HousekeepingOnly
-----------------------------------------------------------------------------
(***************************************************************************)
(* Who can lock everybody out.                                             *)
(***************************************************************************)
LEMMA SameRows ==
  ASSUME user' = user, role' = role
  PROVE  Administered(user, role)' = Administered(user, role)
BY DEF Administered

LEMMA CreatingKeepsAdministrator ==
  ASSUME TypeOK, Administered(user, role), NEW u \in Users, CreateAdmin(u)
  PROVE  Administered(user, role)'
<1>1. PICK v \in Users :
         /\ user[v].there /\ user[v].active
         /\ \/ user[v].flag
            \/ \E r \in user[v].holds : role[r].active /\ "user.manage" \in role[r].codes
  BY DEF Administered
<1>2. user'[v] = user[v] /\ role' = role
  BY <1>1 DEF CreateAdmin, TypeOK
<1>3. QED
  BY <1>1, <1>2 DEF Administered

(* Pruning takes no permission that the release knows. *)
LEMMA PruningKeepsAdministrator ==
  ASSUME "user.manage" \notin Retired, TypeOK, Administered(user, role), Prune
  PROVE  Administered(user, role)'
<1>1. "user.manage" \in AllPermissionCodes[release]
  BY DEF TypeOK, AllPermissionCodes, PERMISSIONS
<1>2. \A r \in RoleCodes : /\ role'[r].active = role[r].active
                           /\ "user.manage" \in role[r].codes =>
                                 "user.manage" \in role'[r].codes
  BY <1>1 DEF Prune, Stale, TypeOK, Role
<1>3. \A u \in Users : user[u].holds \subseteq RoleCodes
  BY DEF TypeOK, User
<1>4. user' = user
  BY DEF Prune
<1>5. QED
  BY <1>2, <1>3, <1>4 DEF Administered

(* An active system administrator, by the flag of the account. *)
Flagged == \E u \in Users : user[u].there /\ user[u].active /\ user[u].flag

(* Among the commands and the roll of a release, only bootstrap_client can *)
(* take user.manage from the last person who has it, by restoring a        *)
(* built-in role, and it never does where some active account carries the  *)
(* flag: create_admin and check_roles --prune lock nobody out.  Requests   *)
(* are another matter: two of them that overlap can (see Administrators).  *)
CommandsLockOut ==
    [][Command /\ Administered(user, role) /\ ~Administered(user, role)'
          => Finish /\ ~Flagged]_vars

(* So it is as long as no release retires that permission.                 *)
THEOREM OfCommandsSeedingLocksOut ==
  ASSUME "user.manage" \notin Retired
  PROVE  Spec => CommandsLockOut
<1>1. ASSUME TypeOK, Command, Administered(user, role), ~Administered(user, role)'
      PROVE  Finish /\ ~Flagged
  <2>1. ~(user' = user /\ role' = role)
    BY <1>1, SameRows
  <2>2. CASE Finish
    <3>1. user' = user
      BY <2>2 DEF Finish
    <3>2. QED
      BY <1>1, <2>2, <3>1 DEF Administered, Flagged
  <2>3. CASE Prune
    BY <1>1, <2>3, PruningKeepsAdministrator
  <2>4. CASE \E u \in Users : CreateAdmin(u)
    BY <1>1, <2>4, CreatingKeepsAdministrator
  <2>5. CASE ~Finish /\ ~Prune /\ ~(\E u \in Users : CreateAdmin(u))
    BY <1>1, <2>1, <2>5 DEF Command, Begin, SaveCompany, SeedRoles, Fail, Roll, data
  <2>6. QED
    BY <2>2, <2>3, <2>4, <2>5
<1>2. QED
  BY <1>1, ProvisioningTyped, PTL DEF Spec, CommandsLockOut
=============================================================================
