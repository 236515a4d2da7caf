------------------------- MODULE GuardianMigrations -------------------------
(***************************************************************************)
(* The data migrations of the application guardian: who may upload to      *)
(* which pipeline.                                                         *)
(*                                                                         *)
(* Each definition is the file of its name: what it does, and what its     *)
(* rollback does.  Accounts, certificates and other rows that all          *)
(* migrations treat alike are represented by one of them; their other      *)
(* columns are left out.  `after' names the migrations of other            *)
(* applications it depends on.                                             *)
(***************************************************************************)
EXTENDS Database

guardian_0001_initial ==
    [app |-> "guardian", n |-> 1, after |-> {},
     up |-> <<>>,
     down |-> <<Fails>>]

guardian_0002_authorize_users_to_populate_pipelines ==
    [app |-> "guardian", n |-> 2, after |-> {<<"auth", 11>>, <<"events", 3>>, <<"ligoauth", 3>>},
     up |-> <<Ensure(Uploads({"LIB"}, {"LIB_PE", "alexander.pace@LIGO.ORG", "oLIB",
              "ryan.lynch@LIGO.ORG"}) \cup Uploads({"MBTAOnline"}, {"MbtaAlert",
              "benoit.mours@LIGO.ORG"}) \cup Uploads({"gstlal"}, {"chad.hanna@LIGO.ORG",
              "gdb-processor", "gracedb.processor", "gstlalcbc", "leo.singer@LIGO.ORG"})
              \cup Uploads({"HardwareInjection "}, {"GRD_INJ", "alexander.urban@LIGO.ORG",
              "christopher.biwer@LIGO.ORG", "gdb-processor", "hinj",
              "laleh.sadeghian@LIGO.ORG", "peter.shawhan@LIGO.ORG"}) \cup Uploads({"SNEWS"},
              {"alexander.urban@LIGO.ORG", "gdb-processor", "gracedb.processor"}) \cup
              Uploads({"CWB"}, {"gdb-processor", "reed.essick@LIGO.ORG", "waveburst"}) \cup
              Uploads({"CWB2G"}, {"gracedb.processor", "min-a.cho@LIGO.ORG", "waveburst"})
              \cup Uploads({"Fermi", "Swift"}, {"alexander.urban@LIGO.ORG", "gdb-processor",
              "gracedb.processor", "grb.exttrig"}) \cup Uploads({"gstlal-spiir"},
              {"gstlal-spiir", "gstlal-spiir-gpu", "qi.chu@LIGO.ORG"}) \cup
              Uploads({"pycbc"}, {"alex.nitz@LIGO.ORG", "christopher.biwer@LIGO.ORG",
              "pycbclive"}))>>,
     down |-> <<>>]

guardian_0003_update_emfollow_accounts ==
    [app |-> "guardian", n |-> 3, after |-> {<<"ligoauth", 5>>},
     up |-> <<Get(Users({"emfollow", "gdb-processor", "gracedb.processor"}) \cup
              Pipelines({"CWB", "CWB2G", "Fermi", "HardwareInjection", "SNEWS", "Swift",
              "gstlal"})), Drop(Uploaders({"Fermi", "SNEWS", "Swift", "gstlal"},
              {"gdb-processor", "gracedb.processor"}) \cup Uploaders({"CWB",
              "HardwareInjection"}, {"gdb-processor"}) \cup Uploaders({"CWB2G"},
              {"gracedb.processor"})), Ensure(Uploaders({"CWB", "CWB2G", "Fermi",
              "HardwareInjection", "SNEWS", "Swift", "gstlal"}, {"emfollow"}))>>,
     down |-> <<Get(Users({"emfollow", "gdb-processor", "gracedb.processor"}) \cup
                Pipelines({"CWB", "CWB2G", "Fermi", "HardwareInjection", "SNEWS", "Swift",
                "gstlal"})), Delete(Uploaders({"CWB", "CWB2G", "Fermi", "HardwareInjection",
                "SNEWS", "Swift", "gstlal"}, {"emfollow"})), Drop(Uploaders({"CWB", "CWB2G",
                "Fermi", "HardwareInjection", "SNEWS", "Swift", "gstlal"}, {"emfollow"})),
                Ensure(Uploaders({"Fermi", "SNEWS", "Swift", "gstlal"}, {"gdb-processor",
                "gracedb.processor"}) \cup Uploaders({"CWB", "HardwareInjection"},
                {"gdb-processor"}) \cup Uploaders({"CWB2G"}, {"gracedb.processor"}))>>]

guardian_0004_add_guardian_anonymoususer_to_public_group ==
    [app |-> "guardian", n |-> 4, after |-> {},
     up |-> <<Ensure(Users({"AnonymousUser"}) \cup Groups({"public_users"}) \cup
              Members({"public_users"}, {"AnonymousUser"}))>>,
     down |-> <<Get(Users({"AnonymousUser"}) \cup Groups({"public_users"})),
                Drop(Members({"public_users"}, {"AnonymousUser"}))>>]

guardian_0005_authorize_raven_users_to_populate_pipelines ==
    [app |-> "guardian", n |-> 5, after |-> {<<"auth", 21>>, <<"events", 17>>},
     up |-> <<Get(Groups({"raven_users"}) \cup Pipelines({"Fermi", "SNEWS", "Swift"})),
              Create(GroupUploaders({"Fermi", "SNEWS", "Swift"}, {"raven_users"}))>>,
     down |-> <<Get(Groups({"raven_users"}) \cup Pipelines({"Fermi", "SNEWS", "Swift"})),
                Delete(GroupUploaders({"Fermi", "SNEWS", "Swift"}, {"raven_users"}))>>]

guardian_0006_authorize_emfollow_to_populate_pipelines ==
    [app |-> "guardian", n |-> 6, after |-> {},
     up |-> <<Get(Users({"emfollow"}) \cup Pipelines({"MBTAOnline", "pycbc", "spiir"})),
              Ensure(Uploaders({"MBTAOnline", "pycbc", "spiir"}, {"emfollow"}))>>,
     down |-> <<Get(Users({"emfollow"}) \cup Pipelines({"MBTAOnline", "pycbc", "spiir"})),
                Delete(Uploaders({"MBTAOnline", "pycbc", "spiir"}, {"emfollow"})),
                Drop(Uploaders({"MBTAOnline", "pycbc", "spiir"}, {"emfollow"}))>>]

guardian_0007_add_gareth_davies_to_pycbc ==
    [app |-> "guardian", n |-> 7, after |-> {},
     up |-> <<Get(Pipelines({"gstlal", "pycbc"})), Ensure(Uploaders({"gstlal"},
              {"cody.messick@LIGO.ORG"}) \cup Uploaders({"pycbc"},
              {"gareth.davies@LIGO.ORG"}) \cup Users({"cody.messick@LIGO.ORG",
              "gareth.davies@LIGO.ORG"}))>>,
     down |-> <<>>]

guardian_0008_add_edoardo_milotti_to_cwb ==
    [app |-> "guardian", n |-> 8, after |-> {},
     up |-> <<Ensure(Uploads({"cwb"}, {"edoardo.milotti@ligo.org"}))>>,
     down |-> <<>>]

guardian_0009_populate_integralagile_uploaders ==
    [app |-> "guardian", n |-> 9, after |-> {<<"events", 46>>},
     up |-> <<Get(Pipelines({"AGILE"})), Ensure(Uploaders({"AGILE"},
              {"alexander.urban@LIGO.ORG", "brandon.piotrzkowski@LIGO.org", "emfollow",
              "grb.exttrig"}) \cup Users({"alexander.urban@LIGO.ORG",
              "brandon.piotrzkowski@LIGO.org", "emfollow", "grb.exttrig"}))>>,
     down |-> <<>>]

guardian_0010_authorize_raven_users_to_populate_new_pipelines ==
    [app |-> "guardian", n |-> 10, after |-> {},
     up |-> <<Get(Groups({"raven_users"}) \cup Pipelines({"AGILE"})),
              Create(GroupUploaders({"AGILE"}, {"raven_users"}))>>,
     down |-> <<Get(Groups({"raven_users"}) \cup Pipelines({"AGILE"})),
                Delete(GroupUploaders({"AGILE"}, {"raven_users"}))>>]

guardian_0012_add_swift_subthrehold_permission ==
    [app |-> "guardian", n |-> 12, after |-> {},
     up |-> <<Get(Pipelines({"Swift"})), Ensure(Uploaders({"Swift"}, {"swiftgrb-subthresh"})
              \cup Users({"swiftgrb-subthresh"}))>>,
     down |-> <<>>]

guardian_0013_populate_mbta_uploaders ==
    [app |-> "guardian", n |-> 13, after |-> {<<"events", 51>>},
     up |-> <<Get(Pipelines({"MBTA", "MBTAOnline"})), CopyUploaders("MBTAOnline", "MBTA")>>,
     down |-> <<>>]

guardian_0014_populate_x_uploaders_cwb ==
    [app |-> "guardian", n |-> 14, after |-> {},
     up |-> <<Ensure(Uploads({"CWB"}, {"kara.merfeld@LIGO.ORG"}))>>,
     down |-> <<>>]

guardian_0015_populate_mly_uploaders ==
    [app |-> "guardian", n |-> 15, after |-> {},
     up |-> <<Ensure(Uploads({"MLy"}, {"wasim.javed@LIGO.ORG"}))>>,
     down |-> <<>>]

guardian_0016_emfollow_upload_mly ==
    [app |-> "guardian", n |-> 16, after |-> {},
     up |-> <<Ensure(Uploads({"MLy"}, {"emfollow"}))>>,
     down |-> <<>>]

\* A bug: the users who have left keep a permission that they have.
PycbcKeepsOld ==
    [app |-> "guardian", n |-> 17, after |-> {},
     up |-> <<Ensure(Uploads({"pycbc"}, {"ana.lorenzo@ligo.org", "max.trevor@ligo.org"}))>>,
     down |-> <<Drop(Uploaders({"pycbc"}, {"ana.lorenzo@ligo.org", "max.trevor@ligo.org"})),
                Ensure(Uploads({"pycbc"}, {"alex.nitz@ligo.org"}))>>]

guardian_0017_update_pycbc_uploaders ==
    [app |-> "guardian", n |-> 17, after |-> {},
     up |-> <<Drop(Uploaders({"pycbc"}, {"alex.nitz@ligo.org"})), Ensure(Uploads({"pycbc"},
              {"ana.lorenzo@ligo.org", "max.trevor@ligo.org"}) \cup
              Users({"alex.nitz@ligo.org"}))>>,
     down |-> <<Drop(Uploaders({"pycbc"}, {"ana.lorenzo@ligo.org", "max.trevor@ligo.org"})),
                Ensure(Uploads({"pycbc"}, {"alex.nitz@ligo.org"}) \cup
                Users({"ana.lorenzo@ligo.org", "max.trevor@ligo.org"}))>>]

guardian_0018_populate_pygrb_uploaders ==
    [app |-> "guardian", n |-> 18, after |-> {<<"events", 82>>},
     up |-> <<Ensure(Uploads({"CHIME", "PyGRB"}, {"ryan.fisher@ligo.org"}))>>,
     down |-> <<>>]

guardian_0019_emfollow_upload_rights ==
    [app |-> "guardian", n |-> 19, after |-> {},
     up |-> <<Ensure(Uploads({"oLIB"}, {"emfollow"}))>>,
     down |-> <<>>]

guardian_0020_populate_aframe_uploaders ==
    [app |-> "guardian", n |-> 20, after |-> {<<"events", 86>>},
     up |-> <<Ensure(Uploads({"aframe"}, {"emfollow", "ethan.marx@ligo.org",
              "michael.coughlin@ligo.org"}))>>,
     down |-> <<>>]

guardian_0021_populate_svom_uploaders ==
    [app |-> "guardian", n |-> 21, after |-> {<<"events", 90>>},
     up |-> <<Ensure(Uploads({"SVOM"}, {"brandon.piotrzkowski@ligo.org", "emfollow",
              "rachel.hamburg@ligo.org"}))>>,
     down |-> <<>>]

guardian_0022_populate_icecube_uploaders ==
    [app |-> "guardian", n |-> 22, after |-> {<<"events", 91>>},
     up |-> <<Ensure(Uploads({"IceCube"}, {"andrew.toivonen@ligo.org",
              "brandon.piotrzkowski@ligo.org", "emfollow"}))>>,
     down |-> <<>>]

guardian_0023_populate_aframe_uploaders ==
    [app |-> "guardian", n |-> 23, after |-> {},
     up |-> <<Ensure(Uploads({"aframe"}, {"aframe-scitoken", "emfollow"}))>>,
     down |-> <<>>]

guardian_0024_add_more_chime_uploaders ==
    [app |-> "guardian", n |-> 24, after |-> {},
     up |-> <<Ensure(Uploads({"CHIME", "PyGRB"}, {"brandon.piotrzkowski@ligo.org",
              "emfollow"}))>>,
     down |-> <<>>]

guardian_0025_populate_gwak_uploaders ==
    [app |-> "guardian", n |-> 25, after |-> {<<"events", 96>>},
     up |-> <<Ensure(Uploads({"GWAK"}, {"emfollow", "gwak-scitoken"}))>>,
     down |-> <<>>]

guardian_0026_update_gstlal_robots ==
    [app |-> "guardian", n |-> 26, after |-> {},
     up |-> <<Ensure(Uploads({"gstlal"}, {"gstlalcbc_offline"}))>>,
     down |-> <<Drop(Uploaders({"gstlal"}, {"gstlalcbc_offline"})),
                Ensure(Users({"gstlalcbc_offline"}) \cup Pipelines({"gstlal"}))>>]

guardian_0027_scitoken_pipeline_ubermigration ==
    [app |-> "guardian", n |-> 27, after |-> {<<"events", 102>>},
     up |-> <<Ensure(Uploads({"SGNL"}, {"chad.hanna@ligo.org", "emfollow", "sgnl-scitoken"})
              \cup Uploads({"CWB"}, {"cwbonline-scitoken"}) \cup Uploads({"aframe"},
              {"ethan.marx@ligo.org"}) \cup Uploads({"PyGRB"}, {"grb-exttrig-scitoken"})
              \cup Uploads({"gstlal"}, {"gstlalcbc_online_cit-scitoken"}) \cup
              Uploads({"pycbc"}, {"max.trevor@ligo.org", "pycbc-live"}) \cup
              Uploads({"MBTA"}, {"mbta-scitoken"}) \cup Uploads({"MLy"},
              {"mly-pipeline-scitoken"}) \cup Uploads({"spiir"},
              {"spiir-low-latency-scitoken"}) \cup Users({"read-cvmfs-emfollow"}) \cup
              Groups({"access_managers", "em_advocates", "superevent_managers"}) \cup
              Members({"access_managers", "em_advocates", "superevent_managers"},
              {"read-cvmfs-emfollow"}))>>,
     down |-> <<Drop(Uploaders({"SGNL"}, {"chad.hanna@ligo.org", "emfollow",
                "sgnl-scitoken"}) \cup Uploaders({"CWB"}, {"cwbonline-scitoken"}) \cup
                Uploaders({"aframe"}, {"ethan.marx@ligo.org"}) \cup Uploaders({"PyGRB"},
                {"grb-exttrig-scitoken"}) \cup Uploaders({"gstlal"},
                {"gstlalcbc_online_cit-scitoken"}) \cup Uploaders({"pycbc"},
                {"max.trevor@ligo.org", "pycbc-live"}) \cup Uploaders({"MBTA"},
                {"mbta-scitoken"}) \cup Uploaders({"MLy"}, {"mly-pipeline-scitoken"}) \cup
                Uploaders({"spiir"}, {"spiir-low-latency-scitoken"}) \cup
                Members({"access_managers", "em_advocates", "superevent_managers"},
                {"read-cvmfs-emfollow"})), Ensure(Users({"chad.hanna@ligo.org",
                "cwbonline-scitoken", "emfollow", "ethan.marx@ligo.org",
                "grb-exttrig-scitoken", "gstlalcbc_online_cit-scitoken",
                "max.trevor@ligo.org", "mbta-scitoken", "mly-pipeline-scitoken",
                "pycbc-live", "read-cvmfs-emfollow", "sgnl-scitoken",
                "spiir-low-latency-scitoken"}) \cup Groups({"access_managers",
                "em_advocates", "superevent_managers"}) \cup Pipelines({"CWB", "MBTA",
                "MLy", "PyGRB", "SGNL", "aframe", "gstlal", "pycbc", "spiir"}))>>]

guardian_0030_aframe_online_perm ==
    [app |-> "guardian", n |-> 30, after |-> {},
     up |-> <<Ensure(Uploads({"aframe"}, {"aframe-online"}))>>,
     down |-> <<>>]
=============================================================================
