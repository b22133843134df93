---------------------------- MODULE MCMigrations ----------------------------
(***************************************************************************)
(* Three users and up to three request types left by the first             *)
(* application, with the contents that make a revision stumble: a user     *)
(* without roles, assignments by role, names whose codes clash.            *)
(***************************************************************************)
EXTENDS Migrations

MCSlug == [otpusk |-> "vacation", vacation |-> "vacation", type_2 |-> "type_2",
           spravka |-> "certificate", marks |-> ""]

By(user)     == [kind |-> "user", role |-> NoRole, user |-> user]
ByRole(role) == [kind |-> "role", role |-> role, user |-> NoUser]
ByBoth(role, user) == [kind |-> "role_and_user", role |-> role, user |-> user]

Type(name, routed, stages) == [name |-> name, code |-> "", routed |-> routed, stages |-> stages]

MCUsers ==
    {[ann |-> {"employee"}, bob |-> {"approver", "admin"}, eve |-> {"employee", "approver"}],
     [ann |-> {"employee"}, bob |-> {}],
     [eve |-> {"admin"}]}

MCTypes ==
    {<<>>,
     <<Type("otpusk", TRUE, <<{By("ann"), By("bob")}, {}, {By("eve")}>>),
       Type("spravka", TRUE, <<>>), Type("marks", FALSE, <<>>)>>,
     <<Type("otpusk", TRUE, <<{By("ann")}, {ByRole("approver")}>>)>>,
     <<Type("otpusk", TRUE, <<{By("eve"), ByBoth("admin", "bob")}>>)>>,
     <<Type("otpusk", TRUE, <<{By("ann")}>>), Type("vacation", FALSE, <<>>)>>,
     <<Type("otpusk", FALSE, <<>>), Type("marks", FALSE, <<>>), Type("type_2", FALSE, <<>>)>>}

\* Every user a type names exists (a foreign key of the first schema).
Known(types, users) ==
    \A i \in DOMAIN types : \A n \in DOMAIN types[i].stages :
        \A a \in types[i].stages[n] : a.user \in DOMAIN users \union {NoUser}

MCLegacyData ==
    {d \in [users : MCUsers, types : MCTypes] : Known(d.types, d.users)}

MCCommands == 0..HeadRevision
=============================================================================
