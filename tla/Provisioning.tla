---------------------------- MODULE Provisioning -----------------------------
(***************************************************************************)
(* The environment of one client: what bootstrap_client, create_admin and  *)
(* check_roles put into it, release after release, while its administrators *)
(* change accounts, roles and the company and documents are numbered.      *)
(*                                                                         *)
(* A command may run while requests are served ("roll the web processes"   *)
(* follows it), so bootstrap_client takes its steps one by one: it is one  *)
(* transaction, and others see nothing of it before its commit but the     *)
(* locks of the rows it has saved.  A request's own transaction is one     *)
(* step; Administrators and DocumentSequence interleave those.  A          *)
(* reference is a pair <<year, number>>.  The audit entries written in     *)
(* these transactions are left out (Session has those that are written     *)
(* outside one).                                                           *)
(***************************************************************************)
EXTENDS Catalogue, Money, FiniteSets

CONSTANTS
    Users,          \* bound: accounts that are ever created
    OwnRoles,       \* codes of roles administrators create; bound: that many
    BuiltinPlayed,  \* bound: built-in roles the model follows
    Choices,        \* bound: permission sets an administrator asks for
    Grants,         \* bound: sets of roles an administrator assigns
    Currencies,     \* codes in SEED_CURRENCIES
    Quantum,        \* smallest coin of each currency as each release seeds it
    Sequences,      \* keys in SEED_SEQUENCES
    Zones,          \* offsets of the time zones a company may have
    Starts,         \* when its years begin
    Forms,          \* company settings forms that are open
    Amounts,        \* bound: amounts that are rounded
    MaxRuns,        \* bound: runs of bootstrap_client
    MaxChanges,     \* bound: changes, after which administrators rest
    MaxDraws,       \* bound: changes, after which no number is issued
    MaxTime         \* bound: the last instant

RoleCodes == BuiltinPlayed \cup OwnRoles

ASSUME SeparateCodes == BuiltinPlayed \subseteq BuiltinCodes
                        /\ OwnRoles \cap BuiltinCodes = {}
ASSUME SomeCurrency == Currencies # {}
ASSUME SeedTypes == Quantum \in [0..MaxRelease -> [Currencies -> Nat \ {0}]]
ASSUME ClockTypes == Zones \subseteq Nat /\ Zones # {} /\ IsFiniteSet(Starts)
ASSUME BoundTypes ==
    /\ MaxRuns \in Nat /\ MaxChanges \in Nat /\ Amounts \subseteq Nat
    /\ MaxDraws \in Nat /\ MaxTime \in Nat

VARIABLES
    release,        \* the release that runs
    now,            \* the clock, in UTC
    currency,       \* quantum of each currency, 0: no row
    company,        \* the one row of core_company
    role,           \* rows of core_role with their core_role_permission
    user,           \* rows of core_user with their core_user_role
    sequence,       \* rows of core_document_sequence
    boot,           \* the bootstrap_client that is running
    form,           \* what each form of the company shows
    hist            \* history of the environment

data == <<currency, company, role, user, sequence>>
vars == <<release, now, data, boot, form, hist>>

(* currency: the code; zone: of timezone, the offset; profile: the columns *)
(* bootstrap_client does not set, or sets to what they are.                *)
Company == [there : BOOLEAN, currency : Currencies, zone : Zones,
            profile : Nat, version : Nat]
Role    == [there : BOOLEAN, system : BOOLEAN, active : BOOLEAN,
            codes : SUBSET (PERMISSIONS \cup Added)]
User    == [there : BOOLEAN, active : BOOLEAN, flag : BOOLEAN,
            holds : SUBSET RoleCodes]

(* next: next_value, 0: no row; year: current_period, 0: "".              *)
Row       == [next : Nat, year : Nat]
Reference == Nat \X Nat

(* company: the copy bootstrap_client works on; currency, zone: arguments. *)
Boot == [stage : {"idle", "company", "roles", "sequences"},
         release : 0..MaxRelease, currency : Currencies, zone : Zones,
         company : Company]

(* issued: references given; twice: sequences that gave one again; back:   *)
(* those that drew for a year and then for one before it; first: quantum   *)
(* of the first seeding; deciding: roles last given approval.decide on     *)
(* purpose; overtaken: a PATCH came while bootstrap_client held its copy   *)
(* of the company; fresh: the release that was seeded, if nothing but the  *)
(* clock has changed since.                                                *)
History == [runs : Nat, changes : Nat,
            issued : [Sequences -> SUBSET Reference],
            twice : SUBSET Sequences, back : SUBSET Sequences,
            first : [Currencies -> Nat], deciding : SUBSET RoleCodes, overtaken : BOOLEAN,
            fresh : SUBSET (0..MaxRelease)]

TypeOK ==
    /\ release \in 0..MaxRelease
    /\ now \in Nat
    /\ currency \in [Currencies -> Nat]
    /\ company \in Company
    /\ role \in [RoleCodes -> Role]
    /\ user \in [Users -> User]
    /\ \A u \in Users : \A r \in user[u].holds : role[r].there
    /\ sequence \in [Sequences -> Row]
    /\ boot \in Boot
    /\ form \in [Forms -> Company]
    /\ hist \in History

NoRole    == [there |-> FALSE, system |-> FALSE, active |-> TRUE, codes |-> {}]
NoUser    == [there |-> FALSE, active |-> TRUE, flag |-> FALSE, holds |-> {}]
NoCompany == [there |-> FALSE, currency |-> CHOOSE c \in Currencies : TRUE,
              zone |-> CHOOSE z \in Zones : TRUE, profile |-> 0, version |-> 1]
NoSequence == [next |-> 0, year |-> 0]
Idle      == [stage |-> "idle", release |-> 0, currency |-> NoCompany.currency,
              zone |-> NoCompany.zone, company |-> NoCompany]

(* The tables as the migrations leave them. *)
Init ==
    /\ release = 0
    /\ now = 0
    /\ currency = [c \in Currencies |-> 0]
    /\ company = NoCompany
    /\ role = [r \in RoleCodes |-> NoRole]
    /\ user = [u \in Users |-> NoUser]
    /\ sequence = [s \in Sequences |-> NoSequence]
    /\ boot = Idle
    /\ form = [f \in Forms |-> NoCompany]
    /\ hist = [runs |-> 0, changes |-> 0,
               issued |-> [s \in Sequences |-> {}], twice |-> {}, back |-> {},
               first |-> [c \in Currencies |-> 0], deciding |-> {},
               overtaken |-> FALSE, fresh |-> {}]

Busy == hist' = [hist EXCEPT !.fresh = {}]

Change ==
    /\ hist.changes < MaxChanges
    /\ hist' = [hist EXCEPT !.fresh = {}, !.changes = @ + 1]
-----------------------------------------------------------------------------
(***************************************************************************)
(* Who may do what.                                                        *)
(***************************************************************************)
Granted(r) == IF role[r].there /\ role[r].active THEN role[r].codes ELSE {}

AdministratorCodes == AllPermissionCodes[release] \ AdministratorExcluded

Stored(u) ==
    (UNION {Granted(r) : r \in user[u].holds})
    \cup (IF user[u].flag THEN AdministratorCodes ELSE {})

Trusted(codes) == codes
Resolved(codes) == codes \cap AllPermissionCodes[release]

PermissionCodes(u) ==
    IF user[u].there /\ user[u].active THEN Resolved(Stored(u)) ELSE {}

(* HasCompanyPermission and require_permission: any one of them will do. *)
Permitted(u, required) == PermissionCodes(u) \cap required # {}

CompanyRequires == [get |-> {"settings.view"}, patch |-> {"settings.manage"}]
UserRequires    == [create |-> {"user.manage"}, update |-> {"user.manage"}]
RoleRequires    == [create |-> {"role.manage"}, update |-> {"role.manage"}]

(* Every request, and create_admin, needs the company first. *)
CompanyFound == company.there

ByPermission(required) == CompanyFound /\ \E u \in Users : Permitted(u, required)
-----------------------------------------------------------------------------
(***************************************************************************)
(* bootstrap_client.  Begin seeds the currencies and reads the company.    *)
(* What it has saved is decided by then, and the rows it has saved stay as *)
(* they are until it commits, so that its saves are applied at the commit. *)
(***************************************************************************)
CompanyLocked == boot.stage \in {"roles", "sequences"}
RoleLocked(r) == boot.stage = "sequences" /\ r \in BuiltinPlayed

(* The image of a release may be run before that release serves requests. *)
Begin(c, z, n) ==
    /\ boot.stage = "idle" /\ hist.runs < MaxRuns
    /\ n \in release..MaxRelease
    /\ boot' = [stage |-> "company", release |-> n, currency |-> c, zone |-> z,
                company |-> company]
    /\ hist' = [hist EXCEPT !.runs = @ + 1]
    /\ UNCHANGED <<release, now, data, form>>

Proceed(from, to) == boot.stage = from /\ boot' = [boot EXCEPT !.stage = to]

(* company.save() writes every column of the copy. *)
SaveCompany == Proceed("company", "roles") /\ UNCHANGED <<release, now, data, form, hist>>
SeedRoles   == Proceed("roles", "sequences") /\ UNCHANGED <<release, now, data, form, hist>>

SavedCompany ==
    LET copy == boot.company IN
    [copy EXCEPT !.there = TRUE, !.currency = boot.currency, !.zone = boot.zone,
                 !.version = IF copy.there THEN @ + 1 ELSE @]

(* get_or_create: a currency that is there keeps its precision. *)
CurrencyUpdated(c) == Quantum[boot.release][c]
SeededCurrency(c) ==
    IF currency[c] = 0 THEN Quantum[boot.release][c] ELSE currency[c]

PermissionsAdded(held, wanted) == held \cup wanted
SetPermissions(held, wanted) == (held \ (held \ wanted)) \cup (wanted \ held)

SeededRole(r) ==
    [role[r] EXCEPT !.there = TRUE, !.system = TRUE,
                    !.codes = SetPermissions(@, BuiltinRoles[boot.release][r])]

SequenceReset(s) == [sequence[s] EXCEPT !.next = 1]
SeededSequence(s) ==
    IF sequence[s].next = 0 THEN [next |-> 1, year |-> 0] ELSE sequence[s]

Finish ==
    /\ boot.stage = "sequences"
    /\ boot' = Idle
    /\ company' = SavedCompany
    /\ currency' = [c \in Currencies |-> SeededCurrency(c)]
    /\ role' = [r \in RoleCodes |-> IF r \in BuiltinPlayed THEN SeededRole(r) ELSE role[r]]
    /\ sequence' = [s \in Sequences |-> SeededSequence(s)]
    /\ hist' = [hist EXCEPT
          !.first = [c \in Currencies |-> IF currency[c] = 0 THEN currency'[c] ELSE @[c]],
          !.deciding = (@ \ BuiltinPlayed) \cup ({Approver} \cap BuiltinPlayed),
          !.fresh = {boot.release}]
    /\ UNCHANGED <<release, now, user, form>>

CompanyAlone ==
    IF boot.stage \in {"roles", "sequences"} THEN SavedCompany ELSE company
Undone == company

(* An error of a step, an unknown time zone, or the end of the process. *)
Fail ==
    /\ boot.stage # "idle"
    /\ boot' = Idle
    /\ company' = Undone
    /\ UNCHANGED <<release, now, currency, role, user, sequence, form, hist>>
-----------------------------------------------------------------------------
(***************************************************************************)
(* The other commands and the release.                                     *)
(***************************************************************************)
CreateAdmin(u) ==
    /\ CompanyFound /\ ~user[u].there
    /\ user' = [user EXCEPT ![u] =
          [there |-> TRUE, active |-> TRUE, flag |-> TRUE,
           holds |-> {r \in RoleCodes : r = SystemAdministrator /\ role[r].there}]]
    /\ Busy
    /\ UNCHANGED <<release, now, currency, company, role, sequence, boot, form>>

Stale(r) == role[r].codes \ AllPermissionCodes[release]

(* check_roles --prune, run once the release serves. *)
Prune ==
    /\ boot.stage # "sequences"
    /\ \E r \in RoleCodes : Stale(r) # {}
    /\ role' = [r \in RoleCodes |-> [role[r] EXCEPT !.codes = @ \ Stale(r)]]
    /\ Busy
    /\ UNCHANGED <<release, now, currency, company, user, sequence, boot, form>>

Roll ==
    /\ release < MaxRelease
    /\ release' = release + 1
    /\ Busy
    /\ UNCHANGED <<now, data, boot, form>>
-----------------------------------------------------------------------------
(***************************************************************************)
(* Requests.                                                               *)
(***************************************************************************)
(* _assert_administrator_remains of what the transaction leaves. *)
Administered(users, roles) ==
    \E u \in Users :
        /\ users[u].there /\ users[u].active
        /\ \/ users[u].flag
           \/ \E r \in users[u].holds : roles[r].active /\ "user.manage" \in roles[r].codes

AnyRole == RoleCodes
Existing == {r \in RoleCodes : role[r].there}

(* What UserWriteSerializer lets a request set. *)
Accounts == [there : {TRUE}, active : BOOLEAN, flag : BOOLEAN,
            holds : Grants \cap SUBSET Existing]

(* validate_permissions: a code out of the catalogue is refused. *)
Known(codes) == codes \subseteq AllPermissionCodes[release]

Deciding(r, codes) ==
    /\ hist.changes < MaxChanges
    /\ hist' = [hist EXCEPT !.fresh = {}, !.changes = @ + 1,
        !.deciding = IF "approval.decide" \in codes THEN @ \cup {r} ELSE @ \ {r}]

CreateUser(u) ==
    /\ ~user[u].there
    /\ ByPermission(UserRequires.create)
    /\ \E account \in Accounts : user' = [user EXCEPT ![u] = account]
    /\ Change
    /\ UNCHANGED <<release, now, currency, company, role, sequence, boot, form>>

UpdateUser(actor, u) ==
    /\ CompanyFound /\ user[u].there
    /\ Permitted(actor, UserRequires.update)
    /\ \E account \in Accounts :
          /\ u = actor => account.active /\ (user[u].flag => account.flag)
          /\ user' = [user EXCEPT ![u] = account]
    /\ Administered(user', role)
    /\ Change
    /\ UNCHANGED <<release, now, currency, company, role, sequence, boot, form>>

(* What RoleSerializer lets a request set: is_system is not among it. *)
Created(active, codes) ==
    [there |-> TRUE, system |-> FALSE, active |-> active, codes |-> codes]

CreateRole(r) ==
    /\ ~role[r].there
    /\ ByPermission(RoleRequires.create)
    /\ \E active \in BOOLEAN, codes \in Choices :
          /\ Known(codes)
          /\ role' = [role EXCEPT ![r] = Created(active, codes)]
          /\ Deciding(r, codes)
    /\ UNCHANGED <<release, now, currency, company, user, sequence, boot, form>>

MayDeactivate(r, active) == role[r].system => active

(* The codes are replaced when the PATCH names them. *)
UpdateRole(r) ==
    /\ role[r].there /\ ~RoleLocked(r)
    /\ ByPermission(RoleRequires.update)
    /\ \E active \in BOOLEAN :
          /\ MayDeactivate(r, active)
          /\ \/ /\ role' = [role EXCEPT ![r].active = active]
                /\ Change
             \/ \E codes \in Choices :
                   /\ Known(codes)
                   /\ role' = [role EXCEPT ![r].active = active,
                                           ![r].codes = SetPermissions(@, codes)]
                   /\ Deciding(r, codes)
    /\ Administered(user, role')
    /\ UNCHANGED <<release, now, currency, company, user, sequence, boot, form>>

OpenForm(f) ==
    /\ ByPermission(CompanyRequires.get)
    /\ form' = [form EXCEPT ![f] = company]
    /\ UNCHANGED <<release, now, data, boot, hist>>

SavedUnversioned(version) == version
SavedTwice(version) == version + 2

(* What CompanySerializer lets a request set, and the version it does not. *)
Edited(c, z) ==
    [company EXCEPT !.currency = c, !.zone = z, !.profile = hist.changes + 1]

(* CompanyView.patch saves the row in serializer.save and once more. *)
Patch(f, c, z) ==
    /\ ByPermission(CompanyRequires.patch) /\ ~CompanyLocked
    /\ hist.changes < MaxChanges
    /\ form[f].there /\ form[f].version = company.version
    /\ company' = [Edited(c, z) EXCEPT !.version = SavedTwice(@)]
    /\ hist' = [hist EXCEPT !.changes = @ + 1, !.fresh = {},
                            !.overtaken = @ \/ boot.stage = "company"]
    /\ UNCHANGED <<release, now, currency, role, user, sequence, boot, form>>

(* The year of today's date in the company's zone: how many have begun. *)
Year == 1 + Cardinality({d \in Starts : d <= now + company.zone})

Number(s) == IF Year # sequence[s].year THEN 1 ELSE sequence[s].next

(* DocumentSequence.allocate locks the company's row with its own.  Seeded *)
(* sequences are reset yearly.                                             *)
Issue(s) ==
    LET reference == <<Year, Number(s)>> IN
    /\ sequence[s].next > 0 /\ ~CompanyLocked
    /\ hist.changes < MaxDraws
    /\ sequence' = [sequence EXCEPT ![s] = [next |-> Number(s) + 1, year |-> Year]]
    /\ hist' = [hist EXCEPT !.changes = @ + 1, !.fresh = {},
          !.issued[s] = @ \cup {reference},
          !.twice = IF reference \in hist.issued[s] THEN @ \cup {s} ELSE @,
          !.back = IF Year < sequence[s].year THEN @ \cup {s} ELSE @]
    /\ UNCHANGED <<release, now, currency, company, role, user, boot, form>>

Tick ==
    /\ now < MaxTime
    /\ now' = now + 1
    /\ UNCHANGED <<release, data, boot, form, hist>>
-----------------------------------------------------------------------------
Command ==
    \/ \E c \in Currencies, z \in Zones, n \in 0..MaxRelease : Begin(c, z, n)
    \/ SaveCompany \/ SeedRoles \/ Finish \/ Fail
    \/ \E u \in Users : CreateAdmin(u)
    \/ Prune \/ Roll

Request ==
    \/ \E u \in Users : CreateUser(u)
    \/ \E actor, u \in Users : UpdateUser(actor, u)
    \/ \E r \in OwnRoles : CreateRole(r)
    \/ \E r \in RoleCodes : UpdateRole(r)
    \/ \E f \in Forms : OpenForm(f)
    \/ \E f \in Forms, c \in Currencies, z \in Zones : Patch(f, c, z)
    \/ \E s \in Sequences : Issue(s)

Next == Command \/ Request \/ Tick

Spec == Init /\ [][Next]_vars
-----------------------------------------------------------------------------
(* An environment is seeded entirely or not at all, and stays so: once     *)
(* there is a company there are its currencies, its sequences and the      *)
(* built-in roles, which are system roles and active ("a built-in role     *)
(* cannot be dismantled"; bootstrap_client's handle is atomic).            *)
EnvironmentComplete ==
    company.there =>
        /\ \A c \in Currencies : currency[c] > 0
        /\ \A s \in Sequences : sequence[s].next > 0
        /\ \A r \in BuiltinPlayed : role[r].there /\ role[r].system /\ role[r].active

(* Who may decide approvals is answered by the role assignments: it takes  *)
(* an active role that was last given that duty on purpose, whatever flags *)
(* accounts carry, commands create and releases seed                       *)
(* (ADMINISTRATOR_EXCLUDED_PERMISSIONS).                                   *)
DecidersAreGranted ==
    \A u \in Users : "approval.decide" \in PermissionCodes(u) =>
        \E r \in user[u].holds : role[r].active /\ r \in hist.deciding

(* What documents rely on survives every run of bootstrap_client.  An      *)
(* amount rounded to its currency when that was first seeded is still      *)
(* printed as it is ("changing precision after amounts exist would restate *)
(* history").  A sequence gives no reference twice unless it drew for a    *)
(* year after it had drawn for a later one: that takes a time zone moved   *)
(* west at the turn of a year, which a PATCH can do, and so can a run of   *)
(* bootstrap_client, which sets the zone again; seeding does nothing else  *)
(* to a sequence that is there.                                            *)
HistoryKept ==
    /\ hist.twice \subseteq hist.back
    /\ \A c \in Currencies : currency[c] > 0 =>
          \A x \in Amounts, mode \in RoundingModes :
              LET amount == RoundMoney(x, hist.first[c], mode)
              IN  FormatMoney(amount, currency[c]) = amount

(* A form whose version is the company's shows its latest settings, though *)
(* CompanyView.patch adds two to the version and bootstrap_client one, as  *)
(* long as no PATCH came between bootstrap_client's read of the company    *)
(* and its save.                                                           *)
CompanyFormsFresh ==
    ~hist.overtaken => \A f \in Forms :
        form[f].there /\ form[f].version = company.version => form[f] = company

(* Housekeeping changes nothing: running bootstrap_client again at once    *)
(* ("the command is idempotent"), with the arguments the company has,      *)
(* leaves all but its version, and check_roles --prune ("a housekeeping    *)
(* report, not an incident") leaves everybody's permissions.               *)
HousekeepingOnly ==
    [][/\ boot.release \in hist.fresh /\ boot.currency = company.currency
          /\ boot.zone = company.zone /\ Finish =>
             /\ UNCHANGED <<currency, role, user, sequence>>
             /\ company' = [company EXCEPT !.version = @ + 1]
       /\ Prune => \A u \in Users : PermissionCodes(u)' = PermissionCodes(u)]_vars
=============================================================================
