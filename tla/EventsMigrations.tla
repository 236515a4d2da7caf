-------------------------- MODULE EventsMigrations --------------------------
(***************************************************************************)
(* The data migrations of the application events: pipelines, searches,     *)
(* labels, tags and groups.                                                *)
(*                                                                         *)
(* Each definition is the file of its name: what it does, and what its     *)
(* rollback does.  Accounts, certificates and other rows that all          *)
(* migrations treat alike are represented by one of them; their other      *)
(* columns are left out.  `after' names the migrations of other            *)
(* applications it depends on.                                             *)
(***************************************************************************)
EXTENDS Database

events_0002_initial_group_data ==
    [app |-> "events", n |-> 2, after |-> {},
     up |-> <<Ensure(EventGroups({"CBC"}))>>,
     down |-> <<Drop(EventGroups({"CBC"}))>>]

events_0003_initial_pipeline_data ==
    [app |-> "events", n |-> 3, after |-> {},
     up |-> <<Ensure(Pipelines({"CWB", "CWB2G", "Fermi", "HardwareInjection", "LIB",
              "MBTAOnline", "Q", "SNEWS", "Swift", "X", "gstlal", "gstlal-spiir",
              "pycbc"}))>>,
     down |-> <<Drop(Pipelines({"CWB", "CWB2G", "Fermi", "HardwareInjection", "LIB",
                "MBTAOnline", "Q", "SNEWS", "Swift", "X", "gstlal", "gstlal-spiir",
                "pycbc"}))>>]

events_0004_initial_search_data ==
    [app |-> "events", n |-> 4, after |-> {},
     up |-> <<Ensure(Searches({"GRB"}))>>,
     down |-> <<Drop(Searches({"GRB"}))>>]

events_0005_initial_label_data ==
    [app |-> "events", n |-> 5, after |-> {},
     up |-> <<Ensure(Labels({"DQV", "H1NO", "cWB_r"}))>>,
     down |-> <<Drop(Labels({"DQV", "H1NO", "cWB_r"}))>>]

events_0006_initial_tag_data ==
    [app |-> "events", n |-> 6, after |-> {},
     up |-> <<Ensure(Tags({"pe"}))>>,
     down |-> <<Drop(Tags({"pe"}))>>]

events_0007_initial_emgroup_data ==
    [app |-> "events", n |-> 7, after |-> {},
     up |-> <<Ensure(EmGroups({"KU"}))>>,
     down |-> <<Drop(EmGroups({"KU"}))>>]

events_0008_add_AllSkyLong_search ==
    [app |-> "events", n |-> 8, after |-> {},
     up |-> <<Ensure(Searches({"AllSkyLong"}))>>,
     down |-> <<Drop(Searches({"AllSkyLong"}))>>]

events_0009_add_em_sent_label ==
    [app |-> "events", n |-> 9, after |-> {},
     up |-> <<Ensure(Labels({"EM_SENT"}))>>,
     down |-> <<Drop(Labels({"EM_SENT"}))>>]

events_0010_add_virgo_labels ==
    [app |-> "events", n |-> 10, after |-> {},
     up |-> <<Ensure(Labels({"V1NO", "V1OPS"}))>>,
     down |-> <<Drop(Labels({"V1NO", "V1OPS"}))>>]

events_0011_add_O2VirgoTest_search ==
    [app |-> "events", n |-> 11, after |-> {},
     up |-> <<Ensure(Searches({"O2VirgoTest"}))>>,
     down |-> <<Drop(Searches({"O2VirgoTest"}))>>]

events_0012_add_DESGW_to_EMGroups ==
    [app |-> "events", n |-> 12, after |-> {},
     up |-> <<Ensure(EmGroups({"DESGW"}))>>,
     down |-> <<Drop(EmGroups({"DESGW"}))>>]

events_0017_rename_pipelines ==
    [app |-> "events", n |-> 17, after |-> {<<"auth", 11>>, <<"guardian", 3>>, <<"ligoauth", 5>>},
     up |-> <<Get(Pipelines({"LIB", "gstlal-spiir"})), Rename("pipeline", "LIB", "oLIB"),
              Rename("pipeline", "gstlal-spiir", "spiir")>>,
     down |-> <<Get(Pipelines({"oLIB", "spiir"})), Rename("pipeline", "oLIB", "LIB"),
                Rename("pipeline", "spiir", "gstlal-spiir")>>]

events_0024_add_labels ==
    [app |-> "events", n |-> 24, after |-> {},
     up |-> <<Ensure(Labels({"DQOK"}))>>,
     down |-> <<Drop(Labels({"DQOK"}))>>]

\* A bug: the tag is created even when a rollback has kept it.
LvemCreatedAgain == [app |-> "events", n |-> 25, after |-> {},
                     up |-> <<Create(Tags({"lvem"}))>>, down |-> <<>>]

events_0025_explicitly_create_access_tags ==
    [app |-> "events", n |-> 25, after |-> {},
     up |-> <<Ensure(Tags({"lvem"}))>>,
     down |-> <<>>]

events_0028_make_labels_protected ==
    [app |-> "events", n |-> 28, after |-> {},
     up |-> <<Get(Labels({"H1NO", "V1NO"}))>>,
     down |-> <<Get(Labels({"H1NO", "V1NO"}))>>]

events_0029_create_bbh_search ==
    [app |-> "events", n |-> 29, after |-> {},
     up |-> <<Ensure(Searches({"BBH"}))>>,
     down |-> <<>>]

events_0031_hwinj_labels ==
    [app |-> "events", n |-> 31, after |-> {},
     up |-> <<Ensure(Labels({"HWINJNO"}))>>,
     down |-> <<Drop(Labels({"HWINJNO"}))>>]

events_0032_create_imbh_search ==
    [app |-> "events", n |-> 32, after |-> {},
     up |-> <<Ensure(Searches({"IMBH"}))>>,
     down |-> <<>>]

events_0034_add_subgrb_search ==
    [app |-> "events", n |-> 34, after |-> {},
     up |-> <<Create(Searches({"SubGRB"}))>>,
     down |-> <<>>]

events_0039_specify_pipeline_types ==
    [app |-> "events", n |-> 39, after |-> {},
     up |-> <<Get(Pipelines({"CWB", "CWB2G", "Fermi", "HardwareInjection", "MBTAOnline",
              "Q", "SNEWS", "Swift", "X", "gstlal", "oLIB", "pycbc", "spiir"})),
              Ensure(OfType("E", {"Fermi", "SNEWS", "Swift"}) \cup OfType("O",
              {"HardwareInjection", "Q"}) \cup OfType("SO", {"CWB2G", "X"}) \cup
              OfType("SP", {"CWB", "MBTAOnline", "gstlal", "oLIB", "pycbc", "spiir"}))>>,
     down |-> <<Get(Pipelines({"CWB", "CWB2G", "Fermi", "HardwareInjection", "MBTAOnline",
                "Q", "SNEWS", "Swift", "X", "gstlal", "oLIB", "pycbc", "spiir"})),
                Ensure(OfType("O", {"CWB", "CWB2G", "Fermi", "HardwareInjection",
                "MBTAOnline", "Q", "SNEWS", "Swift", "X", "gstlal", "oLIB", "pycbc",
                "spiir"}))>>]

events_0043_add_raven_label ==
    [app |-> "events", n |-> 43, after |-> {},
     up |-> <<Ensure(Labels({"RAVEN_ALERT"}))>>,
     down |-> <<Drop(Labels({"RAVEN_ALERT"}))>>]

events_0044_add_skymap_labels ==
    [app |-> "events", n |-> 44, after |-> {},
     up |-> <<Ensure(Labels({"NOT_GRB"}))>>,
     down |-> <<Drop(Labels({"NOT_GRB"}))>>]

events_0045_add_early_warning_search ==
    [app |-> "events", n |-> 45, after |-> {},
     up |-> <<Ensure(Searches({"EarlyWarning"}))>>,
     down |-> <<Drop(Searches({"EarlyWarning"}))>>]

events_0046_add_integral_agile_pipelines ==
    [app |-> "events", n |-> 46, after |-> {},
     up |-> <<Ensure(Pipelines({"AGILE"}))>>,
     down |-> <<Fails>>]

events_0047_specify_integralagile_pipeline_types ==
    [app |-> "events", n |-> 47, after |-> {},
     up |-> <<Get(Pipelines({"AGILE"})), Ensure(OfType("E", {"AGILE"}))>>,
     down |-> <<Get(Pipelines({"AGILE"})), Ensure(OfType("O", {"AGILE"}))>>]

events_0049_add_subgrbtargeted_search ==
    [app |-> "events", n |-> 49, after |-> {},
     up |-> <<Ensure(Searches({"SubGRBTargeted"}))>>,
     down |-> <<Drop(Searches({"SubGRBTargeted"}))>>]

events_0051_add_MBTA_pipeline ==
    [app |-> "events", n |-> 51, after |-> {},
     up |-> <<Ensure(Pipelines({"MBTA"}))>>,
     down |-> <<Drop(Pipelines({"MBTA"}))>>]

events_0053_add_MLy_pipeline ==
    [app |-> "events", n |-> 53, after |-> {},
     up |-> <<Ensure(Pipelines({"MLy"}) \cup OfType("SP", {"MLy"}))>>,
     down |-> <<>>]

events_0056_add_lensing_labels ==
    [app |-> "events", n |-> 56, after |-> {},
     up |-> <<Ensure(Labels({"2022_LENSING_MDC"}))>>,
     down |-> <<Drop(Labels({"2022_LENSING_MDC"}))>>]

events_0057_add_dqr_request_label ==
    [app |-> "events", n |-> 57, after |-> {},
     up |-> <<Ensure(Labels({"DQR_REQUEST"}))>>,
     down |-> <<Drop(Labels({"DQR_REQUEST"}))>>]

events_0059_add_raven_labels ==
    [app |-> "events", n |-> 59, after |-> {},
     up |-> <<Ensure(Labels({"SOG_READY"}))>>,
     down |-> <<Drop(Labels({"SOG_READY"}))>>]

events_0068_rip_mbtaonline ==
    [app |-> "events", n |-> 68, after |-> {},
     up |-> <<Get(Pipelines({"MBTA", "MBTAOnline"})), Ensure(OfType("SO", {"MBTAOnline"})
              \cup OfType("SP", {"MBTA"}))>>,
     down |-> <<Get(Pipelines({"MBTA", "MBTAOnline"})), Ensure(OfType("O", {"MBTA",
                "MBTAOnline"}))>>]

events_0070_new_emfollow_label ==
    [app |-> "events", n |-> 70, after |-> {},
     up |-> <<Ensure(Labels({"EM_SelectedConfident"}))>>,
     down |-> <<Drop(Labels({"EM_SelectedConfident"}))>>]

events_0072_add_highpriority_label ==
    [app |-> "events", n |-> 72, after |-> {},
     up |-> <<Ensure(Labels({"HIGH_PROFILE"}))>>,
     down |-> <<Drop(Labels({"HIGH_PROFILE"}))>>]

events_0073_add_ssm_search ==
    [app |-> "events", n |-> 73, after |-> {},
     up |-> <<Ensure(Searches({"SSM"}))>>,
     down |-> <<Drop(Searches({"SSM"}))>>]

events_0074_add_llama_label ==
    [app |-> "events", n |-> 74, after |-> {},
     up |-> <<Ensure(Labels({"LLAMA_COMPLETE"}))>>,
     down |-> <<Drop(Labels({"LLAMA_COMPLETE"}))>>]

events_0076_add_snr_optimized_label ==
    [app |-> "events", n |-> 76, after |-> {},
     up |-> <<Ensure(Labels({"SNR_OPTIMIZED"}))>>,
     down |-> <<Drop(Labels({"SNR_OPTIMIZED"}))>>]

events_0078_add_emfollow_labels ==
    [app |-> "events", n |-> 78, after |-> {},
     up |-> <<Ensure(Labels({"SIGNIF_LOCKED"}))>>,
     down |-> <<Drop(Labels({"SIGNIF_LOCKED"}))>>]

events_0079_missing_earlywarning_label ==
    [app |-> "events", n |-> 79, after |-> {},
     up |-> <<Ensure(Labels({"EARLY_WARNING"}))>>,
     down |-> <<Drop(Labels({"EARLY_WARNING"}))>>]

events_0081_cwb_label_desc ==
    [app |-> "events", n |-> 81, after |-> {},
     up |-> <<Ensure(Labels({"cWB_r"}))>>,
     down |-> <<>>]

events_0082_add_PyGRB_pipeline ==
    [app |-> "events", n |-> 82, after |-> {},
     up |-> <<Ensure(Pipelines({"CHIME", "PyGRB"}) \cup Searches({"FRB"}) \cup OfType("E",
              {"CHIME"}) \cup OfType("O", {"PyGRB"}))>>,
     down |-> <<Delete(Searches({"FRB"})), Drop(Pipelines({"CHIME", "PyGRB"}))>>]

events_0083_snr_opt_label_desc ==
    [app |-> "events", n |-> 83, after |-> {},
     up |-> <<Ensure(Labels({"SNR_OPTIMIZED"}))>>,
     down |-> <<>>]

events_0084_lensing_search_label ==
    [app |-> "events", n |-> 84, after |-> {},
     up |-> <<Ensure(Searches({"LensingSubthreshold"}) \cup Labels({"LENSED_CANDIDATE"}))>>,
     down |-> <<Drop(Searches({"LensingSubthreshold"}) \cup Labels({"LENSED_CANDIDATE"}))>>]

events_0085_add_detchar_group ==
    [app |-> "events", n |-> 85, after |-> {},
     up |-> <<Ensure(EventGroups({"Detchar"}))>>,
     down |-> <<Drop(EventGroups({"Detchar"}))>>]

events_0086_add_aframe_pipeline ==
    [app |-> "events", n |-> 86, after |-> {},
     up |-> <<Ensure(Pipelines({"aframe"}) \cup OfType("SP", {"aframe"}))>>,
     down |-> <<>>]

events_0088_add_search_VTInjection ==
    [app |-> "events", n |-> 88, after |-> {},
     up |-> <<Ensure(Searches({"VTInjection"}))>>,
     down |-> <<Drop(Searches({"VTInjection"}))>>]

events_0090_add_svom_pipeline ==
    [app |-> "events", n |-> 90, after |-> {},
     up |-> <<Ensure(Pipelines({"SVOM"}) \cup OfType("E", {"SVOM"}))>>,
     down |-> <<Drop(Pipelines({"SVOM"}))>>]

events_0091_add_icecube_pipeline ==
    [app |-> "events", n |-> 91, after |-> {},
     up |-> <<Ensure(Pipelines({"IceCube"}) \cup Searches({"HEN"}) \cup OfType("E",
              {"IceCube"}))>>,
     down |-> <<Delete(Searches({"HEN"})), Drop(Pipelines({"IceCube"}))>>]

events_0093_ssm_label ==
    [app |-> "events", n |-> 93, after |-> {},
     up |-> <<Ensure(Labels({"SSM"}))>>,
     down |-> <<Drop(Labels({"SSM"}))>>]

events_0094_rename_ssm_label ==
    [app |-> "events", n |-> 94, after |-> {},
     up |-> <<Rename("label", "SSM", "SUBSOLAR_MASS")>>,
     down |-> <<Rename("label", "SUBSOLAR_MASS", "SSM")>>]

events_0096_add_gwak_pipeline ==
    [app |-> "events", n |-> 96, after |-> {},
     up |-> <<Ensure(Pipelines({"GWAK"}) \cup OfType("SP", {"GWAK"}))>>,
     down |-> <<>>]

events_0099_mock_label ==
    [app |-> "events", n |-> 99, after |-> {},
     up |-> <<Ensure(Labels({"MOCK"}))>>,
     down |-> <<Drop(Labels({"MOCK"}))>>]

events_0102_add_sgnl_pipeline ==
    [app |-> "events", n |-> 102, after |-> {},
     up |-> <<Ensure(Pipelines({"SGNL"}) \cup OfType("SP", {"SGNL"}))>>,
     down |-> <<>>]

events_0103_create_blessed_tags ==
    [app |-> "events", n |-> 103, after |-> {},
     up |-> <<Ensure(Tags({"cgmi"}))>>,
     down |-> <<Drop(Tags({"cgmi"}))>>]
=============================================================================
