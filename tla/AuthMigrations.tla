--------------------------- MODULE AuthMigrations ---------------------------
(***************************************************************************)
(* The data migrations of the application auth: groups and what they may   *)
(* do.                                                                     *)
(*                                                                         *)
(* Each definition is the file of its name: what it does, and what its     *)
(* rollback does.  Accounts, certificates and other rows that all          *)
(* migrations treat alike are represented by one of them; their other      *)
(* columns are left out.  `after' names the migrations of other            *)
(* applications it depends on.                                             *)
(***************************************************************************)
EXTENDS Database

auth_0010_initial_group_data ==
    [app |-> "auth", n |-> 10, after |-> {},
     up |-> <<Ensure(Groups({"Communities:LSCVirgoLIGOGroupMembers", "em_advocates",
              "executives", "gw-astronomy:LV-EM", "gw-astronomy:LV-EM:Observers",
              "h1_control_room", "public_users"}))>>,
     down |-> <<Drop(Groups({"Communities:LSCVirgoLIGOGroupMembers", "em_advocates",
                "executives", "gw-astronomy:LV-EM", "gw-astronomy:LV-EM:Observers",
                "h1_control_room", "public_users"}))>>]

auth_0011_add_executives_group_permissions ==
    [app |-> "auth", n |-> 11, after |-> {<<"guardian", 1>>},
     up |-> <<Ensure(Groups({"executives"}) \cup May({"executives"},
              {"add_groupobjectpermission"}))>>,
     down |-> <<Drop(May({"executives"}, {"add_groupobjectpermission"}))>>]

auth_0013_add_user_t90_grbevent_permissions ==
    [app |-> "auth", n |-> 13, after |-> {},
     up |-> <<Ensure(Users({"alexander.urban@LIGO.ORG", "mark.poe@LIGO.ORG",
              "robert.coyne@LIGO.ORG"}) \cup UserMay({"t90_grbevent"},
              {"alexander.urban@LIGO.ORG", "mark.poe@LIGO.ORG",
              "robert.coyne@LIGO.ORG"}))>>,
     down |-> <<Drop(UserMay({"t90_grbevent"}, {"alexander.urban@LIGO.ORG",
                "mark.poe@LIGO.ORG", "robert.coyne@LIGO.ORG"}))>>]

auth_0014_add_user_permissions_on_groupobjectpermissions ==
    [app |-> "auth", n |-> 14, after |-> {<<"ligoauth", 3>>},
     up |-> <<Ensure(Users({"gracedb.processor", "min-a.cho@LIGO.ORG"}) \cup
              UserMay({"add_groupobjectpermission"}, {"gracedb.processor",
              "min-a.cho@LIGO.ORG"}))>>,
     down |-> <<Drop(UserMay({"add_groupobjectpermission"}, {"gracedb.processor",
                "min-a.cho@LIGO.ORG"}))>>]

auth_0015_update_emfollow_accounts ==
    [app |-> "auth", n |-> 15, after |-> {<<"events", 3>>, <<"guardian", 2>>, <<"ligoauth", 5>>},
     up |-> <<Get(Users({"emfollow", "gracedb.processor"})),
              Drop(UserMay({"add_groupobjectpermission"}, {"gracedb.processor"})),
              Ensure(UserMay({"add_groupobjectpermission"}, {"emfollow"}))>>,
     down |-> <<Get(Users({"emfollow", "gracedb.processor"})),
                Drop(UserMay({"add_groupobjectpermission"}, {"emfollow"})),
                Ensure(UserMay({"add_groupobjectpermission"}, {"gracedb.processor"}))>>]

auth_0016_create_access_and_superevent_groups ==
    [app |-> "auth", n |-> 16, after |-> {},
     up |-> <<Ensure(Groups({"access_managers", "superevent_managers"}) \cup
              Members({"superevent_managers"}, {"emfollow"}))>>,
     down |-> <<Delete(Groups({"access_managers", "superevent_managers"}))>>]

auth_0017_assign_permissions ==
    [app |-> "auth", n |-> 17, after |-> {<<"events", 17>>, <<"guardian", 3>>},
     up |-> <<Ensure(May({"Communities:LSCVirgoLIGOGroupMembers"}, {"add_test_superevent",
              "tag_log"}) \cup May({"access_managers", "executives"}, {"hide_log"}) \cup
              May({"em_advocates"}, {"add_signoff", "do_adv_signoff"}) \cup
              May({"h1_control_room"}, {"add_signoff", "do_H1_signoff"}) \cup
              May({"superevent_managers"}, {"add_superevent", "add_test_superevent"}))>>,
     down |-> <<Drop(May({"Communities:LSCVirgoLIGOGroupMembers"}, {"add_test_superevent",
                "tag_log"}) \cup May({"access_managers", "executives"}, {"hide_log"}) \cup
                May({"em_advocates"}, {"add_signoff", "do_adv_signoff"}) \cup
                May({"h1_control_room"}, {"add_signoff", "do_H1_signoff"}) \cup
                May({"superevent_managers"}, {"add_superevent", "add_test_superevent"}))>>]

\* A bug: the rollback takes the account out of one of the groups only.
EmfollowStaysAdvocate ==
    [app |-> "auth", n |-> 18, after |-> {},
     up |-> <<Get(Users({"emfollow"})), Ensure(Groups({"access_managers", "em_advocates"})
              \cup Members({"access_managers", "em_advocates"}, {"emfollow"}))>>,
     down |-> <<Get(Users({"emfollow"}) \cup Groups({"access_managers", "em_advocates"})),
                Drop(Members({"access_managers"}, {"emfollow"}))>>]

auth_0018_update_emfollow_groups ==
    [app |-> "auth", n |-> 18, after |-> {},
     up |-> <<Get(Users({"emfollow"})), Ensure(Groups({"access_managers", "em_advocates"})
              \cup Members({"access_managers", "em_advocates"}, {"emfollow"}))>>,
     down |-> <<Get(Users({"emfollow"}) \cup Groups({"access_managers", "em_advocates"})),
                Drop(Members({"access_managers", "em_advocates"}, {"emfollow"}))>>]

auth_0019_create_priority_users_group ==
    [app |-> "auth", n |-> 19, after |-> {},
     up |-> <<Create(Groups({"priority_users"}))>>,
     down |-> <<Delete(Groups({"priority_users"}))>>]

auth_0020_populate_priority_users_group ==
    [app |-> "auth", n |-> 20, after |-> {},
     up |-> <<Get(Groups({"priority_users"})), Ensure(Members({"priority_users"},
              {"MbtaAlert", "detchar", "emfollow", "gstlal-spiir", "gstlalcbc", "oLIB",
              "pycbclive", "virgo_detchar", "waveburst"}))>>,
     down |-> <<Get(Groups({"priority_users"})), Drop(Members({"priority_users"},
                {"MbtaAlert", "detchar", "emfollow", "gstlal-spiir", "gstlalcbc", "oLIB",
                "pycbclive", "virgo_detchar", "waveburst"}))>>]

auth_0021_create_raven_users_group ==
    [app |-> "auth", n |-> 21, after |-> {},
     up |-> <<Create(Groups({"raven_users"}))>>,
     down |-> <<Delete(Groups({"raven_users"}))>>]

auth_0022_populate_raven_users_group ==
    [app |-> "auth", n |-> 22, after |-> {},
     up |-> <<Get(Groups({"raven_users"})), Ensure(Users({"brandon.piotrzkowski@LIGO.ORG"})
              \cup Members({"raven_users"}, {"brandon.piotrzkowski@LIGO.ORG"}))>>,
     down |-> <<Get(Groups({"raven_users"})), Drop(Members({"raven_users"},
                {"brandon.piotrzkowski@LIGO.ORG"}))>>]

auth_0023_add_manage_pipeline_permissions ==
    [app |-> "auth", n |-> 23, after |-> {<<"events", 32>>},
     up |-> <<Get(Groups({"em_advocates"})), Ensure(May({"em_advocates"},
              {"manage_pipeline"}))>>,
     down |-> <<Get(Groups({"em_advocates"})), Drop(May({"em_advocates"},
                {"manage_pipeline"}))>>]

auth_0030_create_gwtc_groups ==
    [app |-> "auth", n |-> 30, after |-> {},
     up |-> <<Ensure(Groups({"catalog_managers"}) \cup Members({"catalog_managers"},
              {"cbcflow", "chad.hanna@ligo.org", "gstlalcbc", "mbtaalert", "pycbclive"}))>>,
     down |-> <<Delete(Groups({"catalog_managers"}))>>]

auth_0031_assign_gwtc_perms ==
    [app |-> "auth", n |-> 31, after |-> {<<"events", 82>>},
     up |-> <<Ensure(May({"catalog_managers"}, {"add_gwtc_catalog"}) \cup
              May({"internal_users"}, {"view_gwtc_cataloggroupobjectpermission"}))>>,
     down |-> <<Drop(May({"catalog_managers"}, {"add_gwtc_catalog"}) \cup
                May({"internal_users"}, {"view_gwtc_cataloggroupobjectpermission"}))>>]
=============================================================================
