------------------------------ MODULE SeedData ------------------------------
(***************************************************************************)
(* The rows src/db/seeds/initial-data.seeder.ts plants: which key goes in  *)
(* which table and which other row it refers to.  Names, descriptions and  *)
(* the text of the form schemas are left out.  A row is found by `find`    *)
(* and is unique on `key`; the two differ for the groups alone, which the  *)
(* seeder looks up by type and the table keeps unique by type and name.    *)
(***************************************************************************)
EXTENDS Sequences, SequencesExt

Row(table, key) == [table |-> table, find |-> key, key |-> key]
Rows(table, keys) == [i \in DOMAIN keys |-> Row(table, keys[i])]

RequestAndCasePermissions ==
    << "case:create", "case:read:any", "case:read:own", "case:read:assigned",
       "case:read:group", "case:update:assigned", "case:update:any",
       "case:delete", "request:create", "request:read:any",
       "request:read:own", "request:read:assigned", "request:read:group",
       "request:update:assigned", "request:update:any" >>

IamAndFoundationPermissions ==
    << "user:manage", "user:manage-license", "group:manage", "role:manage",
       "permission:manage", "foundation:manage", "foundation:people",
       "foundation:support-groups", "foundation:category",
       "group:manage-members", "user:manage-group-members" >>

ModulePermissions ==
    << "service:read", "service:submit", "service:manage",
       "business-line:read", "business-line:manage", "workflow:read",
       "workflow:manage", "sla:read", "sla:manage", "email:read",
       "email:manage", "audit:read", "notify:manage", "case:manage:any" >>

PermissionKeys ==
    RequestAndCasePermissions \o IamAndFoundationPermissions
        \o ModulePermissions

RoleKeys == << "admin", "agent", "end_user" >>

\* What mapRolePermissions gives to each role.
Mapping ==
    [admin    |-> << "case:manage:any" >>,
     agent    |-> << "case:read:assigned", "case:read:group",
                     "case:update:assigned", "request:read:assigned",
                     "request:read:group", "request:update:assigned" >>,
     end_user |-> << "request:create", "request:read:own", "service:read",
                     "service:submit", "business-line:read" >>]

BusinessLineKeys == << "it", "hr", "finance", "facilities", "legal" >>

CategoryKeys == << "incident", "service-request", "change-request", "problem" >>

\* The subcategories with the category each belongs to.
Subcategories ==
    << <<"hardware", "incident">>, <<"software", "incident">>,
       <<"network", "incident">>, <<"security", "incident">>,
       <<"performance", "incident">>,
       <<"account-access", "service-request">>,
       <<"software-license", "service-request">>,
       <<"hardware-equipment", "service-request">>,
       <<"information", "service-request">>,
       <<"infrastructure", "change-request">>,
       <<"application", "change-request">>,
       <<"configuration", "change-request">>,
       <<"recurring-incident", "problem">>,
       <<"root-cause-analysis", "problem">> >>

\* The groups of the IT line, by type and name.
Groups ==
    << <<"tier-1", "IT Tier 1 Support">>, <<"tier-2", "IT Tier 2 Support">>,
       <<"tier-3", "IT Tier 3 Support">>, <<"help-desk", "IT Help Desk">>,
       <<"tier-1", "IT Tier 1 Security">> >>

SlaTargetKeys == << "respond", "resolve" >>

\* The services of the IT line with the subcategory each is filed under.
Services ==
    << <<"it-helpdesk", "software">>,
       <<"it-account-management", "account-access">>,
       <<"it-software-request", "software-license">>,
       <<"it-hardware-request", "hardware-equipment">>,
       <<"it-network-access", "account-access">>,
       <<"it-security", "security">> >>

\* The routing workflows in evaluation order: the value of the metadata field
\* "priority" each asks for ("any" for none) and the module it routes to.
Workflows ==
    << [key |-> "critical-incident-workflow", priority |-> "Critical",
        target |-> "Incident"],
       [key |-> "high-priority-incident-workflow", priority |-> "High",
        target |-> "Incident"],
       [key |-> "general-support-workflow", priority |-> "any",
        target |-> "Case"] >>

Card(service, key, required, defaulted) ==
    [service |-> service, key |-> key, required |-> required,
     defaulted |-> defaulted]

\* The request cards: the fields the form requires and the ones it defaults.
HelpdeskCards ==
    << Card("it-helpdesk", "password-reset", {"username", "urgency"},
            {"urgency"}),
       Card("it-helpdesk", "technical-support",
            {"issueType", "urgency", "description"}, {"urgency"}) >>

AccountCards ==
    << Card("it-account-management", "new-user-account",
            {"firstName", "lastName", "email", "department", "startDate",
             "urgency"}, {"urgency"}),
       Card("it-account-management", "access-request",
            {"systemName", "accessLevel", "businessJustification", "urgency"},
            {"urgency", "accessLevel"}) >>

EquipmentCards ==
    << Card("it-software-request", "software-installation",
            {"softwareName", "businessJustification", "urgency"},
            {"urgency", "licenseRequired"}),
       Card("it-hardware-request", "new-laptop",
            {"laptopType", "operatingSystem", "businessJustification",
             "urgency"}, {"urgency", "operatingSystem"}),
       Card("it-hardware-request", "peripheral-equipment",
            {"equipmentType", "quantity", "businessJustification", "urgency"},
            {"urgency", "quantity"}) >>

NetworkCards ==
    << Card("it-network-access", "vpn-access",
            {"deviceType", "businessJustification", "duration", "urgency"},
            {"urgency", "duration"}),
       Card("it-network-access", "wifi-access",
            {"guestName", "guestEmail", "accessDate", "duration", "urgency"},
            {"urgency", "duration"}) >>

SecurityCards ==
    << Card("it-security", "security-incident",
            {"incidentType", "severity", "description", "whenDiscovered"},
            {"severity"}) >>

RequestCards ==
    HelpdeskCards \o AccountCards \o EquipmentCards \o NetworkCards
        \o SecurityCards
=============================================================================
