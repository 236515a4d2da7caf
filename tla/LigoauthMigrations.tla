------------------------- MODULE LigoauthMigrations -------------------------
(***************************************************************************)
(* The data migrations of the application ligoauth: accounts,              *)
(* certificates, groups and memberships.                                   *)
(*                                                                         *)
(* Each definition is the file of its name: what it does, and what its     *)
(* rollback does.  Accounts, certificates and other rows that all          *)
(* migrations treat alike are represented by one of them; their other      *)
(* columns are left out.  `after' names the migrations of other            *)
(* applications it depends on.                                             *)
(***************************************************************************)
EXTENDS Database

ligoauth_0003_initial_localuser_and_x509cert_data ==
    [app |-> "ligoauth", n |-> 3, after |-> {<<"auth", 10>>},
     up |-> <<Create(Users({"GRD_INJ", "LIB_PE", "MbtaAlert", "bayestar-mic", "bayeswave",
              "cds_lho", "cds_llo", "detchar", "gdb-processor", "gis", "gracedb.processor",
              "grb.exttrig", "gstlal-spiir", "gstlal-spiir-gpu", "gstlalcbc", "hinj",
              "idq-la", "nagios", "oLIB", "pycbclive", "virgo_detchar", "waveburst"})),
              Ensure(NewHeld("GRD_INJ", {"GRD_INJ/1"}) \cup NewHeld("LIB_PE", {"LIB_PE/1"})
              \cup NewHeld("MbtaAlert", {"MbtaAlert/1", "MbtaAlert/2"}) \cup
              NewHeld("bayestar-mic", {"bayestar-mic/1"}) \cup NewHeld("bayeswave",
              {"bayeswave/1"}) \cup NewHeld("cds_lho", {"cds_lho/1"}) \cup
              NewHeld("cds_llo", {"cds_llo/1"}) \cup NewHeld("detchar", {"detchar/1"}) \cup
              NewHeld("gdb-processor", {"gdb-processor/1"}) \cup NewHeld("gis", {"gis/1"})
              \cup NewHeld("gracedb.processor", {"gracedb.processor/1"}) \cup
              NewHeld("grb.exttrig", {"grb.exttrig/1"}) \cup NewHeld("gstlal-spiir",
              {"gstlal-spiir/1"}) \cup NewHeld("gstlal-spiir-gpu", {"gstlal-spiir-gpu/1"})
              \cup NewHeld("gstlalcbc", {"gstlalcbc/1"}) \cup NewHeld("hinj", {"hinj/1"})
              \cup NewHeld("idq-la", {"idq-la/1"}) \cup NewHeld("nagios", {"nagios/1"}) \cup
              NewHeld("oLIB", {"oLIB/1"}) \cup NewHeld("pycbclive", {"pycbclive/1"}) \cup
              NewHeld("virgo_detchar", {"virgo_detchar/1"}) \cup NewHeld("waveburst",
              {"waveburst/1", "waveburst/2"}) \cup
              Groups({"Communities:LSCVirgoLIGOGroupMembers"}) \cup Robots({"GRD_INJ",
              "LIB_PE", "MbtaAlert", "bayestar-mic", "bayeswave", "cds_lho", "cds_llo",
              "detchar", "gdb-processor", "gis", "gracedb.processor", "grb.exttrig",
              "gstlal-spiir", "gstlal-spiir-gpu", "gstlalcbc", "hinj", "idq-la", "nagios",
              "oLIB", "pycbclive", "virgo_detchar", "waveburst"}) \cup
              Members({"Communities:LSCVirgoLIGOGroupMembers"}, {"GRD_INJ", "LIB_PE",
              "MbtaAlert", "bayestar-mic", "bayeswave", "cds_lho", "cds_llo", "detchar",
              "gdb-processor", "gis", "gracedb.processor", "grb.exttrig", "gstlal-spiir",
              "gstlal-spiir-gpu", "gstlalcbc", "hinj", "idq-la", "nagios", "oLIB",
              "pycbclive", "virgo_detchar", "waveburst"}))>>,
     down |-> <<Delete(Users({"bayestar-mic"}) \cup Certs({"bayestar-mic/1"})),
                Drop(Users({"GRD_INJ", "LIB_PE", "MbtaAlert", "bayeswave", "cds_lho",
                "cds_llo", "detchar", "gdb-processor", "gis", "gracedb.processor",
                "grb.exttrig", "gstlal-spiir", "gstlal-spiir-gpu", "gstlalcbc", "hinj",
                "idq-la", "nagios", "oLIB", "pycbclive", "virgo_detchar", "waveburst"}) \cup
                Certs({"GRD_INJ/1", "LIB_PE/1", "MbtaAlert/1", "MbtaAlert/2", "bayeswave/1",
                "cds_lho/1", "cds_llo/1", "detchar/1", "gdb-processor/1", "gis/1",
                "gracedb.processor/1", "grb.exttrig/1", "gstlal-spiir-gpu/1",
                "gstlal-spiir/1", "gstlalcbc/1", "hinj/1", "idq-la/1", "nagios/1", "oLIB/1",
                "pycbclive/1", "virgo_detchar/1", "waveburst/1", "waveburst/2"}))>>]

ligoauth_0004_update_gstlal_spiir_account ==
    [app |-> "ligoauth", n |-> 4, after |-> {<<"auth", 11>>, <<"events", 3>>, <<"guardian", 2>>},
     up |-> <<Get(Users({"gstlal-spiir"})), Delete(Users({"gstlal-spiir-gpu"}) \cup
              Certs({"gstlal-spiir/1"})), Drop(Certs({"gstlal-spiir-gpu/1"})),
              Create(Certs({"gstlal-spiir/2"})), Ensure(Held("gstlal-spiir",
              {"gstlal-spiir/2"}))>>,
     down |-> <<Get(Users({"gstlal-spiir"})), Delete(Certs({"gstlal-spiir/2"})),
                Create(Users({"gstlal-spiir-gpu"}) \cup Certs({"gstlal-spiir-gpu/1",
                "gstlal-spiir/1"})), Ensure(Held("gstlal-spiir", {"gstlal-spiir/1"}) \cup
                Held("gstlal-spiir-gpu", {"gstlal-spiir-gpu/1"}) \cup
                Robots({"gstlal-spiir-gpu"}))>>]

ligoauth_0005_update_emfollow_accounts ==
    [app |-> "ligoauth", n |-> 5, after |-> {},
     up |-> <<Get(Users({"gdb-processor", "gracedb.processor"}) \cup
              Groups({"Communities:LSCVirgoLIGOGroupMembers"})),
              Delete(Certs({"gdb-processor/1", "gracedb.processor/1"})),
              Create(Users({"emfollow"}) \cup Certs({"emfollow/1"})),
              Ensure(Held("emfollow", {"emfollow/1"}) \cup Robots({"emfollow"}) \cup
              Inactive({"gdb-processor", "gracedb.processor"}) \cup
              Members({"Communities:LSCVirgoLIGOGroupMembers"}, {"emfollow"}))>>,
     down |-> <<Get(Users({"gdb-processor", "gracedb.processor"})),
                Delete(Users({"emfollow"}) \cup Certs({"emfollow/1"})),
                Drop(Inactive({"gdb-processor", "gracedb.processor"})),
                Create(Certs({"gdb-processor/1", "gracedb.processor/1"})),
                Ensure(Held("gdb-processor", {"gdb-processor/1"}) \cup
                Held("gracedb.processor", {"gracedb.processor/1"}))>>]

ligoauth_0006_update_cwb_account ==
    [app |-> "ligoauth", n |-> 6, after |-> {},
     up |-> <<Get(Users({"waveburst"})), Delete(Certs({"waveburst/1"})),
              Create(Certs({"waveburst/3"})), Ensure(Held("waveburst", {"waveburst/3"}))>>,
     down |-> <<Get(Users({"waveburst"})), Delete(Certs({"waveburst/3"})),
                Create(Certs({"waveburst/1"})), Ensure(Held("waveburst",
                {"waveburst/1"}))>>]

ligoauth_0007_update_gstlalcbctest ==
    [app |-> "ligoauth", n |-> 7, after |-> {},
     up |-> <<Get(Groups({"Communities:LSCVirgoLIGOGroupMembers"})),
              Create(Users({"gstlalcbctest"})), Ensure(NewHeld("gstlalcbctest",
              {"gstlalcbctest/1"}) \cup Robots({"gstlalcbctest"}) \cup
              Members({"Communities:LSCVirgoLIGOGroupMembers"}, {"gstlalcbctest"}))>>,
     down |-> <<Delete(Users({"gstlalcbctest"}) \cup Certs({"gstlalcbctest/1"}))>>]

ligoauth_0008_add_cwb_certs ==
    [app |-> "ligoauth", n |-> 8, after |-> {},
     up |-> <<Get(Users({"waveburst"})), Delete(Certs({"waveburst/2"})),
              Create(Certs({"waveburst/4"})), Ensure(Held("waveburst", {"waveburst/4"}))>>,
     down |-> <<Get(Users({"waveburst"})), Delete(Certs({"waveburst/4"})),
                Create(Certs({"waveburst/2"})), Ensure(Held("waveburst",
                {"waveburst/2"}))>>]

ligoauth_0009_update_mbta_account ==
    [app |-> "ligoauth", n |-> 9, after |-> {},
     up |-> <<Get(Users({"MbtaAlert"})), Delete(Certs({"MbtaAlert/1"})),
              Create(Certs({"MbtaAlert/3"})), Ensure(Held("MbtaAlert", {"MbtaAlert/3"}))>>,
     down |-> <<Get(Users({"MbtaAlert"})), Delete(Certs({"MbtaAlert/3"})),
                Create(Certs({"MbtaAlert/1"})), Ensure(Held("MbtaAlert",
                {"MbtaAlert/1"}))>>]

ligoauth_0010_update_pycbc_cert ==
    [app |-> "ligoauth", n |-> 10, after |-> {},
     up |-> <<Get(Users({"pycbclive"})), Delete(Certs({"pycbclive/1"})),
              Create(Certs({"pycbclive/2"})), Ensure(Held("pycbclive", {"pycbclive/2"}))>>,
     down |-> <<Get(Users({"pycbclive"})), Delete(Certs({"pycbclive/2"})),
                Create(Certs({"pycbclive/1"})), Ensure(Held("pycbclive",
                {"pycbclive/1"}))>>]

ligoauth_0011_update_virgo_detchar_cert ==
    [app |-> "ligoauth", n |-> 11, after |-> {},
     up |-> <<Get(Users({"virgo_detchar"})), Delete(Certs({"virgo_detchar/1"})),
              Create(Certs({"virgo_detchar/2"})), Ensure(Held("virgo_detchar",
              {"virgo_detchar/2"}))>>,
     down |-> <<Get(Users({"virgo_detchar"})), Delete(Certs({"virgo_detchar/2"})),
                Create(Certs({"virgo_detchar/1"})), Ensure(Held("virgo_detchar",
                {"virgo_detchar/1"}))>>]

ligoauth_0014_add_new_dashboard_cert ==
    [app |-> "ligoauth", n |-> 14, after |-> {},
     up |-> <<Get(Users({"nagios"})), Create(Certs({"nagios/2"})), Ensure(Held("nagios",
              {"nagios/2"}))>>,
     down |-> <<Get(Users({"nagios"})), Delete(Certs({"nagios/2"}))>>]

ligoauth_0015_delete_hinj_cert ==
    [app |-> "ligoauth", n |-> 15, after |-> {},
     up |-> <<Delete(Certs({"hinj/1"}))>>,
     down |-> <<Get(Users({"hinj"})), Create(Certs({"hinj/1"})), Ensure(Held("hinj",
                {"hinj/1"}))>>]

ligoauth_0016_update_bayeswave_certs ==
    [app |-> "ligoauth", n |-> 16, after |-> {},
     up |-> <<Get(Users({"bayeswave"})), Delete(Certs({"bayeswave/1"})),
              Create(Certs({"bayeswave/2"})), Ensure(Held("bayeswave", {"bayeswave/2"}))>>,
     down |-> <<Get(Users({"bayeswave"})), Delete(Certs({"bayeswave/2"})),
                Create(Certs({"bayeswave/1"})), Ensure(Held("bayeswave",
                {"bayeswave/1"}))>>]

ligoauth_0017_update_cds_lho_certs ==
    [app |-> "ligoauth", n |-> 17, after |-> {},
     up |-> <<Get(Users({"cds_lho"})), Delete(Certs({"cds_lho/1"})),
              Create(Certs({"cds_lho/2"})), Ensure(Held("cds_lho", {"cds_lho/2"}))>>,
     down |-> <<Get(Users({"cds_lho"})), Delete(Certs({"cds_lho/2"})),
                Create(Certs({"cds_lho/1"})), Ensure(Held("cds_lho", {"cds_lho/1"}))>>]

ligoauth_0018_update_cds_llo_certs ==
    [app |-> "ligoauth", n |-> 18, after |-> {},
     up |-> <<Get(Users({"cds_llo"})), Delete(Certs({"cds_llo/1"})),
              Create(Certs({"cds_llo/2"})), Ensure(Held("cds_llo", {"cds_llo/2"}))>>,
     down |-> <<Get(Users({"cds_llo"})), Delete(Certs({"cds_llo/2"})),
                Create(Certs({"cds_llo/1"})), Ensure(Held("cds_llo", {"cds_llo/1"}))>>]

ligoauth_0019_update_idq_certs ==
    [app |-> "ligoauth", n |-> 19, after |-> {},
     up |-> <<Get(Users({"idq-la"})), Delete(Certs({"idq-la/1"})),
              Create(Certs({"idq-la/2"})), Ensure(Held("idq-la", {"idq-la/2"}))>>,
     down |-> <<Get(Users({"idq-la"})), Delete(Certs({"idq-la/2"})),
                Create(Certs({"idq-la/1"})), Ensure(Held("idq-la", {"idq-la/1"}))>>]

ligoauth_0020_remove_old_dashboard_certs ==
    [app |-> "ligoauth", n |-> 20, after |-> {},
     up |-> <<Get(Users({"nagios"})), Delete(Certs({"nagios/1"}))>>,
     down |-> <<Get(Users({"nagios"})), Create(Certs({"nagios/1"})), Ensure(Held("nagios",
                {"nagios/1"}))>>]

ligoauth_0021_create_deepclean_account_and_certs ==
    [app |-> "ligoauth", n |-> 21, after |-> {},
     up |-> <<Get(Groups({"Communities:LSCVirgoLIGOGroupMembers"})),
              Create(Users({"deepclean"}) \cup Certs({"deepclean/1"})),
              Ensure(Held("deepclean", {"deepclean/1"}) \cup Robots({"deepclean"}) \cup
              Members({"Communities:LSCVirgoLIGOGroupMembers"}, {"deepclean"}))>>,
     down |-> <<Delete(Users({"deepclean"})), Drop(Certs({"deepclean/1"}))>>]

ligoauth_0022_update_olib_certs ==
    [app |-> "ligoauth", n |-> 22, after |-> {},
     up |-> <<Create(Certs({"olib/1"})), Ensure(Held("olib", {"olib/1"}) \cup
              Users({"olib"}))>>,
     down |-> <<Get(Users({"olib"})), Delete(Certs({"olib/1"}))>>]

ligoauth_0023_update_geo_cert ==
    [app |-> "ligoauth", n |-> 23, after |-> {},
     up |-> <<Get(Groups({"Communities:LSCVirgoLIGOGroupMembers"})),
              Create(Users({"geo-ext-trig"}) \cup Certs({"geo-ext-trig/1"})),
              Ensure(Held("geo-ext-trig", {"geo-ext-trig/1"}) \cup Robots({"geo-ext-trig"})
              \cup Members({"Communities:LSCVirgoLIGOGroupMembers"}, {"geo-ext-trig"}))>>,
     down |-> <<Get(Users({"gerrit.kuehn@LIGO.ORG"}))>>]

ligoauth_0024_create_gwhen_account_and_certs ==
    [app |-> "ligoauth", n |-> 24, after |-> {},
     up |-> <<Get(Groups({"Communities:LSCVirgoLIGOGroupMembers"})), Create(Users({"Gwhen"})
              \cup Certs({"Gwhen/1"})), Ensure(Held("Gwhen", {"Gwhen/1"}) \cup
              Robots({"Gwhen"}) \cup Members({"Communities:LSCVirgoLIGOGroupMembers"},
              {"Gwhen"}))>>,
     down |-> <<Delete(Users({"Gwhen"})), Drop(Certs({"Gwhen/1"}))>>]

ligoauth_0025_update_emfollow_certs ==
    [app |-> "ligoauth", n |-> 25, after |-> {},
     up |-> <<Get(Users({"emfollow"})), Create(Certs({"emfollow/2"})),
              Ensure(Held("emfollow", {"emfollow/2"}))>>,
     down |-> <<Get(Users({"emfollow"})), Delete(Certs({"emfollow/2"}))>>]

ligoauth_0026_update_hinj_acct_and_certs ==
    [app |-> "ligoauth", n |-> 26, after |-> {},
     up |-> <<Get(Users({"hinj"})), Create(Certs({"hinj/2"})), Ensure(Held("hinj",
              {"hinj/2"}))>>,
     down |-> <<Get(Users({"hinj"})), Delete(Certs({"hinj/2"}))>>]

ligoauth_0027_add_olib_cert ==
    [app |-> "ligoauth", n |-> 27, after |-> {},
     up |-> <<Get(Users({"olib"})), Create(Certs({"olib/2"})), Ensure(Held("olib",
              {"olib/2"}))>>,
     down |-> <<Get(Users({"olib"})), Delete(Certs({"olib/2"}))>>]

ligoauth_0028_create_gbm_followup_account_and_certs ==
    [app |-> "ligoauth", n |-> 28, after |-> {},
     up |-> <<Get(Groups({"Communities:LSCVirgoLIGOGroupMembers"})),
              Create(Users({"fermi-gbm-follow-up"}) \cup Certs({"fermi-gbm-follow-up/1"})),
              Ensure(Held("fermi-gbm-follow-up", {"fermi-gbm-follow-up/1"}) \cup
              Robots({"fermi-gbm-follow-up"}) \cup
              Members({"Communities:LSCVirgoLIGOGroupMembers"}, {"fermi-gbm-follow-up"}))>>,
     down |-> <<Delete(Users({"fermi-gbm-follow-up"})),
                Drop(Certs({"fermi-gbm-follow-up/1"}))>>]

ligoauth_0029_update_detchar_certs ==
    [app |-> "ligoauth", n |-> 29, after |-> {},
     up |-> <<Get(Users({"detchar"})), Create(Certs({"detchar/2"})), Ensure(Held("detchar",
              {"detchar/2"}))>>,
     down |-> <<Get(Users({"detchar"})), Delete(Certs({"detchar/2"}))>>]

ligoauth_0030_update_spiir_acct_and_certs ==
    [app |-> "ligoauth", n |-> 30, after |-> {},
     up |-> <<Get(Users({"gstlal-spiir"})), Create(Certs({"spiir/1"})),
              Ensure(Held("gstlal-spiir", {"spiir/1"})), Rename("user", "gstlal-spiir",
              "spiir")>>,
     down |-> <<Get(Users({"spiir"})), Delete(Certs({"spiir/1"})), Rename("user", "spiir",
                "gstlal-spiir")>>]

ligoauth_0031_add_cwb_cert ==
    [app |-> "ligoauth", n |-> 31, after |-> {},
     up |-> <<Get(Users({"waveburst"})), Create(Certs({"waveburst/5"})),
              Ensure(Held("waveburst", {"waveburst/5"}))>>,
     down |-> <<Get(Users({"waveburst"})), Delete(Certs({"waveburst/5"}))>>]

ligoauth_0032_create_gweventlistener_acct_and_cert ==
    [app |-> "ligoauth", n |-> 32, after |-> {},
     up |-> <<Get(Groups({"Communities:LSCVirgoLIGOGroupMembers"})),
              Create(Users({"gweventlistener"}) \cup Certs({"gweventlistener/1"})),
              Ensure(Held("gweventlistener", {"gweventlistener/1"}) \cup
              Robots({"gweventlistener"}) \cup
              Members({"Communities:LSCVirgoLIGOGroupMembers"}, {"gweventlistener"}))>>,
     down |-> <<Delete(Users({"gweventlistener"}) \cup Certs({"gweventlistener/1"}))>>]

ligoauth_0033_add_spiir_cert ==
    [app |-> "ligoauth", n |-> 33, after |-> {},
     up |-> <<Get(Users({"spiir"})), Create(Certs({"spiir/2"})), Ensure(Held("spiir",
              {"spiir/2"}))>>,
     down |-> <<Get(Users({"spiir"})), Delete(Certs({"spiir/2"}))>>]

ligoauth_0034_add_gstlal_cert ==
    [app |-> "ligoauth", n |-> 34, after |-> {},
     up |-> <<Get(Users({"gstlalcbc"})), Create(Certs({"gstlalcbc/2"})),
              Ensure(Held("gstlalcbc", {"gstlalcbc/2"}))>>,
     down |-> <<Get(Users({"gstlalcbc"})), Delete(Certs({"gstlalcbc/2"}))>>]

ligoauth_0035_add_mbta_cert ==
    [app |-> "ligoauth", n |-> 35, after |-> {},
     up |-> <<Get(Users({"MbtaAlert"})), Create(Certs({"MbtaAlert/4"})),
              Ensure(Held("MbtaAlert", {"MbtaAlert/4"}))>>,
     down |-> <<Get(Users({"MbtaAlert"})), Delete(Certs({"MbtaAlert/4"}))>>]

ligoauth_0036_add_cwb_cert ==
    [app |-> "ligoauth", n |-> 36, after |-> {},
     up |-> <<Get(Users({"waveburst"})), Create(Certs({"waveburst/6"})),
              Ensure(Held("waveburst", {"waveburst/6"}))>>,
     down |-> <<Get(Users({"waveburst"})), Delete(Certs({"waveburst/6"}))>>]

ligoauth_0038_populate_authgroup ==
    [app |-> "ligoauth", n |-> 38, after |-> {<<"auth", 23>>, <<"events", 32>>, <<"guardian", 3>>},
     up |-> <<Ensure(Groups({"access_managers", "em_advocates", "executives",
              "h1_control_room", "priority_users", "public_users", "raven_users",
              "superevent_managers"}) \cup Tags({"lvem"}) \cup
              AuthGroups({"Communities:LSCVirgoLIGOGroupMembers", "access_managers",
              "em_advocates", "executives", "gw-astronomy:LV-EM",
              "gw-astronomy:LV-EM:Observers", "h1_control_room", "priority_users",
              "public_users", "raven_users", "superevent_managers"})), Rename("group",
              "Communities:LSCVirgoLIGOGroupMembers", "internal_users"), Rename("group",
              "gw-astronomy:LV-EM", "lvem_users"), Rename("group",
              "gw-astronomy:LV-EM:Observers", "lvem_observers")>>,
     down |-> <<Get(Groups({"access_managers", "em_advocates", "executives",
                "h1_control_room", "internal_users", "lvem_observers", "lvem_users",
                "priority_users", "public_users", "raven_users", "superevent_managers"})),
                Drop(AuthGroups({"access_managers", "em_advocates", "executives",
                "h1_control_room", "internal_users", "lvem_observers", "lvem_users",
                "priority_users", "public_users", "raven_users", "superevent_managers"})),
                Rename("group", "internal_users", "Communities:LSCVirgoLIGOGroupMembers"),
                Rename("group", "lvem_users", "gw-astronomy:LV-EM"), Rename("group",
                "lvem_observers", "gw-astronomy:LV-EM:Observers")>>]

ligoauth_0042_populate_x509cert_user_field ==
    [app |-> "ligoauth", n |-> 42, after |-> {},
     up |-> <<OwnHeld>>,
     down |-> <<ShareOwned>>]

ligoauth_0044_create_robot_accounts_authgroup ==
    [app |-> "ligoauth", n |-> 44, after |-> {},
     up |-> <<Create(Groups({"robot_accounts"})), Ensure(AuthGroups({"robot_accounts"}))>>,
     down |-> <<Delete(Groups({"robot_accounts"}))>>]

ligoauth_0045_populate_robot_accounts_authgroup ==
    [app |-> "ligoauth", n |-> 45, after |-> {},
     up |-> <<Get(Groups({"robot_accounts"})), JoinRobots>>,
     down |-> <<>>]

ligoauth_0046_delete_robotuser_model ==
    [app |-> "ligoauth", n |-> 46, after |-> {<<"events", 34>>, <<"guardian", 5>>},
     up |-> <<ForgetRobots>>,
     down |-> <<>>]

ligoauth_0047_add_emfollow_cert ==
    [app |-> "ligoauth", n |-> 47, after |-> {},
     up |-> <<Get(Users({"emfollow"})), Create(Certs({"emfollow/3"})),
              Ensure(Owned("emfollow", {"emfollow/3"}))>>,
     down |-> <<Get(Users({"emfollow"})), Delete(Certs({"emfollow/3"}))>>]

ligoauth_0048_update_executives_membership ==
    [app |-> "ligoauth", n |-> 48, after |-> {},
     up |-> <<Get(Groups({"executives"})), ClearMembers("executives"),
              Ensure(Users({"alexander.pace@LIGO.ORG", "patrick.brady@LIGO.ORG"}) \cup
              Members({"executives"}, {"alexander.pace@LIGO.ORG",
              "patrick.brady@LIGO.ORG"}))>>,
     down |-> <<>>]

ligoauth_0049_update_access_managers_membership ==
    [app |-> "ligoauth", n |-> 49, after |-> {},
     up |-> <<Get(Groups({"access_managers"})), ClearMembers("access_managers"),
              Ensure(Users({"alexander.pace@LIGO.ORG", "emfollow", "leo.singer@LIGO.ORG",
              "patrick.brady@LIGO.ORG", "peter.shawhan@LIGO.ORG", "shaon.ghosh@LIGO.ORG"})
              \cup Members({"access_managers"}, {"alexander.pace@LIGO.ORG", "emfollow",
              "leo.singer@LIGO.ORG", "patrick.brady@LIGO.ORG", "peter.shawhan@LIGO.ORG",
              "shaon.ghosh@LIGO.ORG"}))>>,
     down |-> <<>>]

ligoauth_0050_create_grb_managers_authgroup ==
    [app |-> "ligoauth", n |-> 50, after |-> {},
     up |-> <<Create(Groups({"grb_managers"})), ClearUsersOf("t90_grbevent"),
              Ensure(AuthGroups({"grb_managers"}) \cup May({"grb_managers"},
              {"t90_grbevent"}))>>,
     down |-> <<Delete(Groups({"grb_managers"}))>>]

ligoauth_0051_populate_grb_managers_authgroup ==
    [app |-> "ligoauth", n |-> 51, after |-> {},
     up |-> <<Get(Groups({"grb_managers"})), Ensure(Users({"robert.coyne@LIGO.ORG",
              "ryan.fisher@LIGO.ORG"}) \cup Members({"grb_managers"},
              {"robert.coyne@LIGO.ORG", "ryan.fisher@LIGO.ORG"}))>>,
     down |-> <<>>]

ligoauth_0052_update_gstlalcbc_O3b_cert ==
    [app |-> "ligoauth", n |-> 52, after |-> {},
     up |-> <<Get(Users({"gstlalcbc"})), Create(Certs({"gstlalcbc/3"})),
              Ensure(Owned("gstlalcbc", {"gstlalcbc/3"}))>>,
     down |-> <<Fails>>]

ligoauth_0053_update_virgodetchar_cert ==
    [app |-> "ligoauth", n |-> 53, after |-> {},
     up |-> <<Get(Users({"virgo_detchar"})), Create(Certs({"virgo_detchar/3"})),
              Ensure(Owned("virgo_detchar", {"virgo_detchar/3"}))>>,
     down |-> <<Fails>>]

ligoauth_0054_update_pycbclive_cert ==
    [app |-> "ligoauth", n |-> 54, after |-> {},
     up |-> <<Get(Users({"pycbclive"})), Create(Certs({"pycbclive/3"})),
              Ensure(Owned("pycbclive", {"pycbclive/3"}))>>,
     down |-> <<Get(Users({"pycbclive"})), Delete(Certs({"pycbclive/3"}))>>]

ligoauth_0055_update_detchar_cert ==
    [app |-> "ligoauth", n |-> 55, after |-> {},
     up |-> <<Get(Users({"detchar"})), Create(Certs({"detchar/3"})), Ensure(Owned("detchar",
              {"detchar/3"}))>>,
     down |-> <<Get(Users({"detchar"})), Delete(Certs({"detchar/3"}))>>]

ligoauth_0056_update_dashboard_cert ==
    [app |-> "ligoauth", n |-> 56, after |-> {},
     up |-> <<Get(Users({"nagios"})), Create(Certs({"nagios/3"})), Ensure(Owned("nagios",
              {"nagios/3"}))>>,
     down |-> <<Get(Users({"nagios"})), Delete(Certs({"nagios/3"}))>>]

ligoauth_0057_gstlalcbc_luigi_cert ==
    [app |-> "ligoauth", n |-> 57, after |-> {},
     up |-> <<Get(Users({"gstlalcbc"})), Create(Certs({"gstlalcbc/4"})),
              Ensure(Owned("gstlalcbc", {"gstlalcbc/4"}))>>,
     down |-> <<Get(Users({"gstlalcbc"})), Delete(Certs({"gstlalcbc/4"}))>>]

ligoauth_0058_add_more_detchar_certs ==
    [app |-> "ligoauth", n |-> 58, after |-> {},
     up |-> <<Get(Users({"detchar"})), Create(Certs({"detchar/4", "detchar/5"})),
              Ensure(Owned("detchar", {"detchar/4", "detchar/5"}))>>,
     down |-> <<Get(Users({"detchar"})), Delete(Certs({"detchar/4", "detchar/5"}))>>]

ligoauth_0059_grb_exttrig_cert ==
    [app |-> "ligoauth", n |-> 59, after |-> {},
     up |-> <<Get(Users({"grb.exttrig"})), Create(Certs({"grb.exttrig/2"})),
              Ensure(Owned("grb.exttrig", {"grb.exttrig/2"}))>>,
     down |-> <<Get(Users({"grb.exttrig"})), Delete(Certs({"grb.exttrig/2"}))>>]

ligoauth_0060_add_emfollow_test_cert ==
    [app |-> "ligoauth", n |-> 60, after |-> {},
     up |-> <<Get(Users({"emfollow"})), Create(Certs({"emfollow/4"})),
              Ensure(Owned("emfollow", {"emfollow/4"}))>>,
     down |-> <<Get(Users({"emfollow"})), Delete(Certs({"emfollow/4"}))>>]

ligoauth_0062_populate_auth_ldap_communities ==
    [app |-> "ligoauth", n |-> 62, after |-> {},
     up |-> <<Get(Groups({"internal_users"})), Ensure(LdapGroups({"KAGRA"}))>>,
     down |-> <<Delete(LdapGroups({"KAGRA"}))>>]

ligoauth_0063_populate_emadv_auth_ldap_communities ==
    [app |-> "ligoauth", n |-> 63, after |-> {},
     up |-> <<Get(Groups({"em_advocates"})), Ensure(LdapGroups({"EM Advovates"}))>>,
     down |-> <<Delete(LdapGroups({"EM Advovates"}))>>]

ligoauth_0064_populate_lvem_auth_ldap_communities ==
    [app |-> "ligoauth", n |-> 64, after |-> {},
     up |-> <<Get(Groups({"lvem_users"})), Ensure(LdapGroups({"LVEM"}))>>,
     down |-> <<Delete(LdapGroups({"LVEM"}))>>]

ligoauth_0065_populate_lvemo_auth_ldap_communities ==
    [app |-> "ligoauth", n |-> 65, after |-> {},
     up |-> <<Get(Groups({"lvem_observers"})), Ensure(LdapGroups({"LVEM Observers"}))>>,
     down |-> <<Delete(LdapGroups({"LVEM Observers"}))>>]

ligoauth_0066_add_more_spiir_certs ==
    [app |-> "ligoauth", n |-> 66, after |-> {},
     up |-> <<Get(Users({"spiir"})), Create(Certs({"spiir/3"})), Ensure(Owned("spiir",
              {"spiir/3"}))>>,
     down |-> <<Get(Users({"spiir"})), Delete(Certs({"spiir/3"}))>>]

ligoauth_0067_add_gitlab_runner ==
    [app |-> "ligoauth", n |-> 67, after |-> {},
     up |-> <<Get(Groups({"internal_users", "robot_accounts"})),
              Create(Certs({"gitlab.runner/1"})), Ensure(RobotAccounts({"gitlab.runner"})
              \cup Owned("gitlab.runner", {"gitlab.runner/1"}))>>,
     down |-> <<Delete(Users({"gitlab.runner"}) \cup Certs({"gitlab.runner/1"}))>>]

ligoauth_0068_setup_swiftgrb ==
    [app |-> "ligoauth", n |-> 68, after |-> {},
     up |-> <<Get(Groups({"internal_users", "robot_accounts"})),
              Create(Certs({"swiftgrb-subthresh/1"})),
              Ensure(RobotAccounts({"swiftgrb-subthresh"}) \cup Owned("swiftgrb-subthresh",
              {"swiftgrb-subthresh/1"}))>>,
     down |-> <<Delete(Users({"swiftgrb-subthresh"}) \cup
                Certs({"swiftgrb-subthresh/1"}))>>]

ligoauth_0069_setup_asimov ==
    [app |-> "ligoauth", n |-> 69, after |-> {},
     up |-> <<Get(Groups({"internal_users", "robot_accounts"})),
              Create(Certs({"asimov/1"})), Ensure(RobotAccounts({"asimov"}) \cup
              Owned("asimov", {"asimov/1"}))>>,
     down |-> <<Delete(Users({"asimov"}) \cup Certs({"asimov/1"}))>>]

ligoauth_0071_dmacleod_robot ==
    [app |-> "ligoauth", n |-> 71, after |-> {},
     up |-> <<Get(Groups({"internal_users", "robot_accounts"})),
              Create(Certs({"duncan.macleod.robot/1"})),
              Ensure(RobotAccounts({"duncan.macleod.robot"}) \cup
              Owned("duncan.macleod.robot", {"duncan.macleod.robot/1"}))>>,
     down |-> <<Delete(Users({"duncan.macleod.robot"}) \cup
                Certs({"duncan.macleod.robot/1"}))>>]

ligoauth_0072_catalogdevcron_robot ==
    [app |-> "ligoauth", n |-> 72, after |-> {},
     up |-> <<Get(Groups({"internal_users", "robot_accounts"})),
              Create(Certs({"rebecca.ewing.robot/1"})),
              Ensure(RobotAccounts({"rebecca.ewing.robot"}) \cup
              Owned("rebecca.ewing.robot", {"rebecca.ewing.robot/1"}))>>,
     down |-> <<Delete(Users({"rebecca.ewing.robot"}) \cup
                Certs({"rebecca.ewing.robot/1"}))>>]

ligoauth_0073_urban_to_bruntz ==
    [app |-> "ligoauth", n |-> 73, after |-> {},
     up |-> <<Get(Users({"detchar"})), Drop(Certs({"detchar/2", "detchar/3", "detchar/4"})),
              Create(Certs({"detchar/6"})), Ensure(Owned("detchar", {"detchar/6"}))>>,
     down |-> <<Get(Users({"detchar"})), Delete(Certs({"detchar/6"}))>>]

ligoauth_0074_dqrtaskdev_robot ==
    [app |-> "ligoauth", n |-> 74, after |-> {},
     up |-> <<Get(Groups({"internal_users", "robot_accounts"})),
              Create(Certs({"dqr-task-dev/1"})), Ensure(RobotAccounts({"dqr-task-dev"}) \cup
              Owned("dqr-task-dev", {"dqr-task-dev/1"}))>>,
     down |-> <<Delete(Users({"dqr-task-dev"}) \cup Certs({"dqr-task-dev/1"}))>>]

ligoauth_0075_grbcron_robot ==
    [app |-> "ligoauth", n |-> 75, after |-> {},
     up |-> <<Get(Groups({"internal_users", "robot_accounts"})),
              Create(Certs({"mediumlatencygrbcron/1"})),
              Ensure(RobotAccounts({"mediumlatencygrbcron"}) \cup
              Owned("mediumlatencygrbcron", {"mediumlatencygrbcron/1"}))>>,
     down |-> <<Delete(Users({"mediumlatencygrbcron"}) \cup
                Certs({"mediumlatencygrbcron/1"}))>>]

ligoauth_0076_mly_robot ==
    [app |-> "ligoauth", n |-> 76, after |-> {},
     up |-> <<Get(Groups({"internal_users", "robot_accounts"})),
              Create(Certs({"mly.robot/1"})), Ensure(RobotAccounts({"mly.robot"}) \cup
              Owned("mly.robot", {"mly.robot/1"}))>>,
     down |-> <<Delete(Users({"mly.robot"}) \cup Certs({"mly.robot/1"}))>>]

ligoauth_0077_add_another_pycbc_cert ==
    [app |-> "ligoauth", n |-> 77, after |-> {},
     up |-> <<Get(Users({"pycbclive"})), Create(Certs({"pycbclive/4"})),
              Ensure(Owned("pycbclive", {"pycbclive/4"}))>>,
     down |-> <<Get(Users({"pycbclive"})), Delete(Certs({"pycbclive/4"}))>>]

ligoauth_0078_gwskynet_account ==
    [app |-> "ligoauth", n |-> 78, after |-> {},
     up |-> <<Get(Groups({"internal_users", "robot_accounts"})),
              Create(Certs({"gwskynet/1"})), Ensure(RobotAccounts({"gwskynet"}) \cup
              Owned("gwskynet", {"gwskynet/1"}))>>,
     down |-> <<Delete(Users({"gwskynet"}) \cup Certs({"gwskynet/1"}))>>]

ligoauth_0079_add_rapidpe ==
    [app |-> "ligoauth", n |-> 79, after |-> {},
     up |-> <<Get(Groups({"internal_users", "robot_accounts"})),
              Create(Certs({"rapidpe/1"})), Ensure(RobotAccounts({"rapidpe"}) \cup
              Owned("rapidpe", {"rapidpe/1"}))>>,
     down |-> <<Delete(Users({"rapidpe"}) \cup Certs({"rapidpe/1"}))>>]

ligoauth_0080_new_gstlalcbc_stuff ==
    [app |-> "ligoauth", n |-> 80, after |-> {<<"events", 51>>, <<"guardian", 16>>},
     up |-> <<Get(Groups({"internal_users", "robot_accounts"})),
              Create(Certs({"gstlalcbc_icds/1"})), Ensure(RobotAccounts({"gstlalcbc_icds"})
              \cup Uploads({"gstlal"}, {"gstlalcbc_icds", "rebecca.ewing@LIGO.ORG"}) \cup
              Owned("gstlalcbc_icds", {"gstlalcbc_icds/1"}))>>,
     down |-> <<Delete(Users({"gstlalcbc_icds"}) \cup Certs({"gstlalcbc_icds/1"}))>>]

ligoauth_0081_new_dqr_certs ==
    [app |-> "ligoauth", n |-> 81, after |-> {},
     up |-> <<Get(Groups({"internal_users", "robot_accounts"})),
              Create(Certs({"dqr-task/1"})), Ensure(RobotAccounts({"dqr-task"}) \cup
              Owned("dqr-task", {"dqr-task/1"}))>>,
     down |-> <<Delete(Users({"dqr-task"}) \cup Certs({"dqr-task/1"}))>>]

ligoauth_0082_add_new_robot_certs ==
    [app |-> "ligoauth", n |-> 82, after |-> {},
     up |-> <<Get(Groups({"internal_users", "robot_accounts"})),
              Create(Certs({"dqr-task/2"})), Ensure(Owned("dqr-task", {"dqr-task/2"}) \cup
              Users({"dqr-task", "duncan.macleod.robot"}) \cup
              Certs({"duncan.macleod.robot/1"}))>>,
     down |-> <<Fails>>]

ligoauth_0083_another_spiir_cert ==
    [app |-> "ligoauth", n |-> 83, after |-> {},
     up |-> <<Get(Users({"spiir"})), Create(Certs({"spiir/4"})), Ensure(Owned("spiir",
              {"spiir/4"}))>>,
     down |-> <<Get(Users({"spiir"})), Delete(Certs({"spiir/4"}))>>]

ligoauth_0085_bulk_account_update ==
    [app |-> "ligoauth", n |-> 85, after |-> {},
     up |-> <<Get(Groups({"internal_users", "robot_accounts"})),
              Create(Certs({"gwistat/1"})), Ensure(RobotAccounts({"gwistat"}) \cup
              Owned("gwistat", {"gwistat/1"}))>>,
     down |-> <<Delete(Users({"gwistat"}) \cup Certs({"gwistat/1"}))>>]

ligoauth_0086_hwinj_update ==
    [app |-> "ligoauth", n |-> 86, after |-> {},
     up |-> <<Get(Groups({"internal_users", "robot_accounts"})), Create(Certs({"hwinj/1"})),
              Ensure(RobotAccounts({"hwinj"}) \cup Uploads({"HardwareInjection"}, {"hwinj",
              "siddharth.soni@ligo.org"}) \cup Owned("hwinj", {"hwinj/1"}))>>,
     down |-> <<Delete(Users({"hwinj"}) \cup Certs({"hwinj/1"}))>>]

ligoauth_0087_rrt_and_alert_groups ==
    [app |-> "ligoauth", n |-> 87, after |-> {},
     up |-> <<Ensure(Groups({"rrt_members"}) \cup LdapGroups({"RRT, LVC"}) \cup
              AuthGroups({"rrt_members"}))>>,
     down |-> <<Delete(Groups({"rrt_members"}) \cup LdapGroups({"RRT, LVC"}))>>]

ligoauth_0088_new_mly_robot_cert ==
    [app |-> "ligoauth", n |-> 88, after |-> {},
     up |-> <<Get(Users({"mly.robot"})), Drop(Certs({"mly.robot/1"})),
              Create(Certs({"mly.robot/2"})), Ensure(Owned("mly.robot", {"mly.robot/2"}))>>,
     down |-> <<Get(Users({"mly.robot"})), Delete(Certs({"mly.robot/2"}))>>]

ligoauth_0089_yet_another_gstlalcbc_cert ==
    [app |-> "ligoauth", n |-> 89, after |-> {},
     up |-> <<Get(Users({"gstlalcbc"})), Create(Certs({"gstlalcbc/5"})),
              Ensure(Owned("gstlalcbc", {"gstlalcbc/5"}))>>,
     down |-> <<Get(Users({"gstlalcbc"})), Delete(Certs({"gstlalcbc/5"}))>>]

ligoauth_0090_add_cwb_cert ==
    [app |-> "ligoauth", n |-> 90, after |-> {},
     up |-> <<Get(Users({"waveburst"})), Create(Certs({"waveburst/7"})),
              Ensure(Owned("waveburst", {"waveburst/7"}))>>,
     down |-> <<Get(Users({"waveburst"})), Delete(Certs({"waveburst/7"}))>>]

ligoauth_0091_fix_pycbclive_cert ==
    [app |-> "ligoauth", n |-> 91, after |-> {},
     up |-> <<Get(Users({"pycbclive"}) \cup Certs({"pycbclive/3"}))>>,
     down |-> <<>>]

ligoauth_0092_emfollow_so_many_certs ==
    [app |-> "ligoauth", n |-> 92, after |-> {},
     up |-> <<Get(Users({"emfollow"})), Create(Certs({"emfollow/5"})),
              Ensure(Owned("emfollow", {"emfollow/5"}))>>,
     down |-> <<Get(Users({"emfollow"})), Delete(Certs({"emfollow/5"}))>>]

ligoauth_0093_230524_accounts ==
    [app |-> "ligoauth", n |-> 93, after |-> {},
     up |-> <<Get(Groups({"internal_users", "robot_accounts"})), Create(Certs({"cbcflow/1",
              "codybot5000/1"})), Ensure(RobotAccounts({"cbcflow", "codybot5000"}) \cup
              Owned("cbcflow", {"cbcflow/1"}) \cup Owned("codybot5000",
              {"codybot5000/1"}))>>,
     down |-> <<Delete(Users({"cbcflow", "codybot5000"}) \cup Certs({"cbcflow/1",
                "codybot5000/1"}))>>]

ligoauth_0094_add_another_cwb_cert ==
    [app |-> "ligoauth", n |-> 94, after |-> {},
     up |-> <<Get(Users({"waveburst"})), Create(Certs({"waveburst/8"})),
              Ensure(Owned("waveburst", {"waveburst/8"}))>>,
     down |-> <<Get(Users({"waveburst"})), Delete(Certs({"waveburst/8"}))>>]

ligoauth_0095_another_gstlalcbc_cert ==
    [app |-> "ligoauth", n |-> 95, after |-> {},
     up |-> <<Get(Users({"gstlalcbc"})), Create(Certs({"gstlalcbc/6"})),
              Ensure(Owned("gstlalcbc", {"gstlalcbc/6"}))>>,
     down |-> <<Get(Users({"gstlalcbc"})), Delete(Certs({"gstlalcbc/6"}))>>]

ligoauth_0096_create_cm_authgroup ==
    [app |-> "ligoauth", n |-> 96, after |-> {<<"auth", 30>>},
     up |-> <<Ensure(Groups({"catalog_managers"}) \cup AuthGroups({"catalog_managers"}))>>,
     down |-> <<Get(Groups({"catalog_managers"})), Drop(AuthGroups({"catalog_managers"}))>>]

ligoauth_0097_gstlalcbc_nemo ==
    [app |-> "ligoauth", n |-> 97, after |-> {},
     up |-> <<Get(Certs({"gstlalcbc/6"}) \cup Groups({"internal_users", "robot_accounts"})),
              Ensure(RobotAccounts({"gstlalcbc_nemo"}) \cup Uploads({"gstlal"},
              {"gstlalcbc_nemo"}) \cup Owned("gstlalcbc_nemo", {"gstlalcbc/6"}))>>,
     down |-> <<Delete(Users({"gstlalcbc_nemo"}) \cup Certs({"gstlalcbc/6"}))>>]

ligoauth_0098_add_scitoken_robot_groups ==
    [app |-> "ligoauth", n |-> 98, after |-> {},
     up |-> <<Get(Groups({"internal_users"})),
              Ensure(LdapGroups({"LVK SciToken Robots"}))>>,
     down |-> <<Delete(LdapGroups({"LVK SciToken Robots"}))>>]

ligoauth_0099_another_gwskynet_cert ==
    [app |-> "ligoauth", n |-> 99, after |-> {},
     up |-> <<Get(Users({"gwskynet"})), Create(Certs({"gwskynet/2"})),
              Ensure(Owned("gwskynet", {"gwskynet/2"}))>>,
     down |-> <<Get(Users({"gwskynet"})), Delete(Certs({"gwskynet/2"}))>>]

ligoauth_0100_more_gstlal_certs ==
    [app |-> "ligoauth", n |-> 100, after |-> {},
     up |-> <<Get(Users({"gstlalcbc", "gstlalcbc_icds"})), Create(Certs({"gstlalcbc/7",
              "gstlalcbc_icds/2"})), Ensure(Owned("gstlalcbc", {"gstlalcbc/7"}) \cup
              Owned("gstlalcbc_icds", {"gstlalcbc_icds/2"}))>>,
     down |-> <<Get(Users({"gstlalcbc", "gstlalcbc_icds"})), Delete(Certs({"gstlalcbc/7",
                "gstlalcbc_icds/2"}))>>]

ligoauth_0101_create_emfollow_devs_group ==
    [app |-> "ligoauth", n |-> 101, after |-> {},
     up |-> <<Ensure(Users({"meg-scitoken"}) \cup Groups({"emfollow_devs"}) \cup
              AuthGroups({"emfollow_devs"}) \cup Members({"emfollow_devs"},
              {"meg-scitoken"}))>>,
     down |-> <<Get(Groups({"emfollow_devs"})), Drop(AuthGroups({"emfollow_devs"}))>>]

ligoauth_0102_fix_em_advocates ==
    [app |-> "ligoauth", n |-> 102, after |-> {},
     up |-> <<Drop(LdapGroups({"EM Advovates"})), Ensure(LdapGroups({"EM Advocates"}))>>,
     down |-> <<>>]
=============================================================================
