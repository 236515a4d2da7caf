----------------------------- MODULE Migrations -----------------------------
(***************************************************************************)
(* Data migrations, applied one after the other and rolled back.           *)
(*                                                                         *)
(* `migrate' applies what is not applied yet in the order of Plan.  The    *)
(* last migration of an application is rolled back by `migrate' with the   *)
(* name of the one before, and no other with it if none depends on it.     *)
(***************************************************************************)
EXTENDS LigoauthMigrations, EventsMigrations, GuardianMigrations, AuthMigrations, FiniteSetsExt

CONSTANT MaxRollbacks    \* bound on the rollbacks

\* The order Django finds for all applications.
Plan == <<events_0002_initial_group_data, events_0003_initial_pipeline_data,
          events_0004_initial_search_data, events_0005_initial_label_data,
          events_0006_initial_tag_data, events_0007_initial_emgroup_data,
          events_0008_add_AllSkyLong_search, events_0009_add_em_sent_label,
          events_0010_add_virgo_labels, events_0011_add_O2VirgoTest_search,
          events_0012_add_DESGW_to_EMGroups, auth_0010_initial_group_data,
          guardian_0001_initial, auth_0011_add_executives_group_permissions,
          ligoauth_0003_initial_localuser_and_x509cert_data,
          guardian_0002_authorize_users_to_populate_pipelines,
          ligoauth_0004_update_gstlal_spiir_account, ligoauth_0005_update_emfollow_accounts,
          guardian_0003_update_emfollow_accounts, events_0017_rename_pipelines,
          events_0024_add_labels, events_0025_explicitly_create_access_tags,
          events_0028_make_labels_protected, events_0029_create_bbh_search,
          events_0031_hwinj_labels, events_0032_create_imbh_search,
          auth_0013_add_user_t90_grbevent_permissions,
          auth_0014_add_user_permissions_on_groupobjectpermissions,
          auth_0015_update_emfollow_accounts, auth_0016_create_access_and_superevent_groups,
          auth_0017_assign_permissions, auth_0018_update_emfollow_groups,
          auth_0019_create_priority_users_group, auth_0020_populate_priority_users_group,
          auth_0021_create_raven_users_group, auth_0022_populate_raven_users_group,
          auth_0023_add_manage_pipeline_permissions, auth_0030_create_gwtc_groups,
          events_0034_add_subgrb_search, events_0039_specify_pipeline_types,
          events_0043_add_raven_label, events_0044_add_skymap_labels,
          events_0045_add_early_warning_search, events_0046_add_integral_agile_pipelines,
          events_0047_specify_integralagile_pipeline_types,
          events_0049_add_subgrbtargeted_search, events_0051_add_MBTA_pipeline,
          events_0053_add_MLy_pipeline, events_0056_add_lensing_labels,
          events_0057_add_dqr_request_label, events_0059_add_raven_labels,
          events_0068_rip_mbtaonline, events_0070_new_emfollow_label,
          events_0072_add_highpriority_label, events_0073_add_ssm_search,
          events_0074_add_llama_label, events_0076_add_snr_optimized_label,
          events_0078_add_emfollow_labels, events_0079_missing_earlywarning_label,
          events_0081_cwb_label_desc, events_0082_add_PyGRB_pipeline,
          auth_0031_assign_gwtc_perms, events_0083_snr_opt_label_desc,
          events_0084_lensing_search_label, events_0085_add_detchar_group,
          events_0086_add_aframe_pipeline, events_0088_add_search_VTInjection,
          events_0090_add_svom_pipeline, events_0091_add_icecube_pipeline,
          events_0093_ssm_label, events_0094_rename_ssm_label, events_0096_add_gwak_pipeline,
          events_0099_mock_label, events_0102_add_sgnl_pipeline,
          events_0103_create_blessed_tags,
          guardian_0004_add_guardian_anonymoususer_to_public_group,
          guardian_0005_authorize_raven_users_to_populate_pipelines,
          guardian_0006_authorize_emfollow_to_populate_pipelines,
          guardian_0007_add_gareth_davies_to_pycbc, guardian_0008_add_edoardo_milotti_to_cwb,
          guardian_0009_populate_integralagile_uploaders,
          guardian_0010_authorize_raven_users_to_populate_new_pipelines,
          guardian_0012_add_swift_subthrehold_permission, guardian_0013_populate_mbta_uploaders,
          guardian_0014_populate_x_uploaders_cwb, guardian_0015_populate_mly_uploaders,
          guardian_0016_emfollow_upload_mly, guardian_0017_update_pycbc_uploaders,
          guardian_0018_populate_pygrb_uploaders, guardian_0019_emfollow_upload_rights,
          guardian_0020_populate_aframe_uploaders, guardian_0021_populate_svom_uploaders,
          guardian_0022_populate_icecube_uploaders, guardian_0023_populate_aframe_uploaders,
          guardian_0024_add_more_chime_uploaders, guardian_0025_populate_gwak_uploaders,
          guardian_0026_update_gstlal_robots, guardian_0027_scitoken_pipeline_ubermigration,
          guardian_0030_aframe_online_perm, ligoauth_0006_update_cwb_account,
          ligoauth_0007_update_gstlalcbctest, ligoauth_0008_add_cwb_certs,
          ligoauth_0009_update_mbta_account, ligoauth_0010_update_pycbc_cert,
          ligoauth_0011_update_virgo_detchar_cert, ligoauth_0014_add_new_dashboard_cert,
          ligoauth_0015_delete_hinj_cert, ligoauth_0016_update_bayeswave_certs,
          ligoauth_0017_update_cds_lho_certs, ligoauth_0018_update_cds_llo_certs,
          ligoauth_0019_update_idq_certs, ligoauth_0020_remove_old_dashboard_certs,
          ligoauth_0021_create_deepclean_account_and_certs, ligoauth_0022_update_olib_certs,
          ligoauth_0023_update_geo_cert, ligoauth_0024_create_gwhen_account_and_certs,
          ligoauth_0025_update_emfollow_certs, ligoauth_0026_update_hinj_acct_and_certs,
          ligoauth_0027_add_olib_cert, ligoauth_0028_create_gbm_followup_account_and_certs,
          ligoauth_0029_update_detchar_certs, ligoauth_0030_update_spiir_acct_and_certs,
          ligoauth_0031_add_cwb_cert, ligoauth_0032_create_gweventlistener_acct_and_cert,
          ligoauth_0033_add_spiir_cert, ligoauth_0034_add_gstlal_cert,
          ligoauth_0035_add_mbta_cert, ligoauth_0036_add_cwb_cert,
          ligoauth_0038_populate_authgroup, ligoauth_0042_populate_x509cert_user_field,
          ligoauth_0044_create_robot_accounts_authgroup,
          ligoauth_0045_populate_robot_accounts_authgroup, ligoauth_0046_delete_robotuser_model,
          ligoauth_0047_add_emfollow_cert, ligoauth_0048_update_executives_membership,
          ligoauth_0049_update_access_managers_membership,
          ligoauth_0050_create_grb_managers_authgroup,
          ligoauth_0051_populate_grb_managers_authgroup,
          ligoauth_0052_update_gstlalcbc_O3b_cert, ligoauth_0053_update_virgodetchar_cert,
          ligoauth_0054_update_pycbclive_cert, ligoauth_0055_update_detchar_cert,
          ligoauth_0056_update_dashboard_cert, ligoauth_0057_gstlalcbc_luigi_cert,
          ligoauth_0058_add_more_detchar_certs, ligoauth_0059_grb_exttrig_cert,
          ligoauth_0060_add_emfollow_test_cert, ligoauth_0062_populate_auth_ldap_communities,
          ligoauth_0063_populate_emadv_auth_ldap_communities,
          ligoauth_0064_populate_lvem_auth_ldap_communities,
          ligoauth_0065_populate_lvemo_auth_ldap_communities,
          ligoauth_0066_add_more_spiir_certs, ligoauth_0067_add_gitlab_runner,
          ligoauth_0068_setup_swiftgrb, ligoauth_0069_setup_asimov,
          ligoauth_0071_dmacleod_robot, ligoauth_0072_catalogdevcron_robot,
          ligoauth_0073_urban_to_bruntz, ligoauth_0074_dqrtaskdev_robot,
          ligoauth_0075_grbcron_robot, ligoauth_0076_mly_robot,
          ligoauth_0077_add_another_pycbc_cert, ligoauth_0078_gwskynet_account,
          ligoauth_0079_add_rapidpe, ligoauth_0080_new_gstlalcbc_stuff,
          ligoauth_0081_new_dqr_certs, ligoauth_0082_add_new_robot_certs,
          ligoauth_0083_another_spiir_cert, ligoauth_0085_bulk_account_update,
          ligoauth_0086_hwinj_update, ligoauth_0087_rrt_and_alert_groups,
          ligoauth_0088_new_mly_robot_cert, ligoauth_0089_yet_another_gstlalcbc_cert,
          ligoauth_0090_add_cwb_cert, ligoauth_0091_fix_pycbclive_cert,
          ligoauth_0092_emfollow_so_many_certs, ligoauth_0093_230524_accounts,
          ligoauth_0094_add_another_cwb_cert, ligoauth_0095_another_gstlalcbc_cert,
          ligoauth_0096_create_cm_authgroup, ligoauth_0097_gstlalcbc_nemo,
          ligoauth_0098_add_scitoken_robot_groups, ligoauth_0099_another_gwskynet_cert,
          ligoauth_0100_more_gstlal_certs, ligoauth_0101_create_emfollow_devs_group,
          ligoauth_0102_fix_em_advocates>>

VARIABLES
    applied,     \* the positions in the plan of the applied migrations
    tables,      \* the database
    top,         \* history: how far the plan has been applied
    straight,    \* history: what the database was there
    changes,     \* history: what each migration gave and took on the way there
    rollbacks

vars == <<applied, tables, top, straight, changes, rollbacks>>

\* The memberships and the permissions in a database.
Access(db) == {r \in db : r[1] \in {"in", "gp", "up", "perm", "gperm"}}

Waiting == DOMAIN Plan \ applied

\* What the next migration makes of the database.  After a rollback the plan is followed no
\* further than before.
NextUp == Min(Waiting)
CanGoOn == Waiting # {} /\ (rollbacks > 0 => NextUp <= top)

Migrate ==
    /\ CanGoOn
    /\ LET result == RunSteps(tables, Plan[NextUp].up)
       IN  /\ result.ok
           /\ tables' = result.db
           /\ applied' = applied \cup {NextUp}
           /\ IF rollbacks = 0
              THEN /\ straight' = result.db /\ top' = NextUp
                   /\ changes' = Append(changes, [gave |-> Access(result.db) \ tables,
                                                  took |-> Access(tables) \ result.db])
              ELSE UNCHANGED <<straight, top, changes>>
    /\ UNCHANGED rollbacks

\* The migrations of other applications each one needs.
Needs == [j \in DOMAIN Plan |-> {i \in DOMAIN Plan : \E d \in Plan[j].after :
                                    d[1] = Plan[i].app /\ d[2] >= Plan[i].n}]

\* The order of the plan is one that the dependencies and the numbers of the migrations allow.
ASSUME PlanAssumption ==
    \A j \in DOMAIN Plan :
        /\ \A i \in Needs[j] : i < j
        /\ \A i \in DOMAIN Plan : Plan[i].app = Plan[j].app /\ Plan[i].n < Plan[j].n => i < j

Rollback(i) ==
    /\ rollbacks < MaxRollbacks
    /\ \A j \in applied : /\ Plan[j].app = Plan[i].app => Plan[j].n <= Plan[i].n
                          /\ i \notin Needs[j]
    /\ LET result == RunSteps(tables, Plan[i].down)
       IN  result.ok /\ tables' = result.db
    /\ applied' = applied \ {i}
    /\ rollbacks' = rollbacks + 1
    /\ UNCHANGED <<top, straight, changes>>

Init == /\ applied = {} /\ tables = {} /\ top = 0
        /\ straight = {} /\ changes = <<>> /\ rollbacks = 0

Next == Migrate \/ \E i \in applied : Rollback(i)

Spec == Init /\ [][Next]_vars

-----------------------------------------------------------------------------
(* Properties.                                                             *)

TypeOK ==
    /\ applied \subseteq 1 .. top /\ top \in 0 .. Len(Plan)
    /\ rollbacks \in 0 .. MaxRollbacks /\ Len(changes) = top
    /\ \A r \in tables : Parents(r) \subseteq tables
    /\ \A j \in applied : Needs[j] \subseteq applied

\* It cannot be applied again: it asks for a certificate that its rollback has deleted, and
\* makes one without a user.
Unrepeatable == ligoauth_0097_gstlalcbc_nemo

\* A fresh database can be built by applying all migrations, and after any rollbacks the
\* next one can be applied.
MigrationsRun ==
    CanGoOn => \/ RunSteps(tables, Plan[NextUp].up).ok
               \/ rollbacks > 0 /\ Plan[NextUp] = Unrepeatable

Redone == rollbacks > 0 /\ applied = 1 .. top

\* The user that ligoauth 0068 makes is there before; its rollback deletes the user, and with
\* it a permission of guardian 0012.  Once ligoauth 0046 has dropped the table of robots, 0045
\* finds none.
NotRedone == Uploaders({"Swift"}, {"swiftgrb-subthresh"})
             \cup {r \in straight : r[1] = "in" /\ r[3] = "robot_accounts"}

\* Migrations that are rolled back and applied again restore every account, certificate,
\* membership, permission, pipeline, search, label and tag.
NothingIsLost == Redone => straight \ tables \subseteq NotRedone

\* Rows that the order of a fresh database leaves out: auth 0030 and 0031 come before the
\* users and the group they name, and ligoauth 0049 clears its group after guardian 0027 has
\* added to it; applied again, they find what they look for.  Events 0034 creates its search
\* again, and its rollback has kept the first.
OnlyRedone == Members({"catalog_managers"}, {"cbcflow", "chad.hanna@ligo.org"})
              \cup May({"internal_users"}, {"view_gwtc_cataloggroupobjectpermission"})
              \cup Members({"access_managers"}, {"read-cvmfs-emfollow"})
              \cup Doubles(Searches({"SubGRB"}))

\* They give nobody more than before, but for permissions on pipelines that are gone.
Kept == {r \in tables : r[1] \notin {"stray", "gstray"}}
NobodyGains == Redone => Kept \ straight \subseteq OnlyRedone

-----------------------------------------------------------------------------
(* What each migration gives and takes, and what its rollback leaves.      *)

\* What the applied migrations gave and none of them took later.
InForce ==
    LET takers == {j \in applied : changes[j].took # {}}
    IN  UNION {changes[k].gave \ UNION {changes[j].took : j \in {i \in takers : i > k}} :
               k \in applied}

\* Migrations that have been rolled back by a function that does nothing.
OneWay == {k \in (1 .. top) \ applied : Plan[k].down = <<>>}

\* A rollback that gives what its migration has not taken: guardian 0003, whose account had a
\* permission on the pipeline that guardian 0002 misspells, and guardian 0017, which looks for
\* the users of pycbc under names nobody has.
GivenInstead == Uploaders({"HardwareInjection"}, {"gdb-processor"})
                \cup Uploaders({"pycbc"}, {"alex.nitz@ligo.org"})

\* One that keeps what its migration has given: ligoauth 0080 and 0086, whose functions for the
\* permissions only say `pass', and ligoauth 0101, which deletes the AuthGroup and keeps the
\* group it is made of.
KeptInstead == Uploaders({"gstlal"}, {"rebecca.ewing@LIGO.ORG"})
               \cup Uploaders({"HardwareInjection"}, {"siddharth.soni@ligo.org"})
               \cup Members({"emfollow_devs"}, {"meg-scitoken"})

\* One that takes what another migration has given: ligoauth 0004, which makes an account anew,
\* guardian 0027, whose lists name users of guardian 0017 and 0020 as well, and ligoauth 0050,
\* which has moved the holders of a permission to a group and deletes the group only.
TakenInstead == Members({"Communities:LSCVirgoLIGOGroupMembers"}, {"gstlal-spiir-gpu"})
                \cup Uploaders({"gstlal-spiir"}, {"gstlal-spiir-gpu"})
                \cup Uploaders({"pycbc"}, {"max.trevor@ligo.org"})
                \cup Uploaders({"aframe"}, {"ethan.marx@ligo.org"})
                \cup UserMay({"t90_grbevent"}, {"robert.coyne@LIGO.ORG", "alexander.urban@LIGO.ORG",
                                               "mark.poe@LIGO.ORG"})

\* What auth 0031 gives a group under its old name when it is applied again before the renaming
\* of ligoauth 0038 has been rolled back.
BeforeRenaming == May({"Communities:LSCVirgoLIGOGroupMembers"},
                      {"view_gwtc_cataloggroupobjectpermission"})

\* Whatever is rolled back and applied again, the memberships and permissions are those that the
\* applied migrations gave: a rollback takes away what its migration gave, gives back what it
\* took, and touches nothing else, but for the migrations named above and those whose rollback
\* does nothing.
RollbacksUndo ==
    rollbacks > 0 =>
        /\ Access(tables) \ (InForce \cup UNION {changes[k].gave : k \in OneWay})
               \subseteq GivenInstead \cup KeptInstead \cup OnlyRedone \cup BeforeRenaming
        /\ InForce \ (tables \cup UNION {changes[k].took : k \in OneWay})
               \subseteq TakenInstead \cup NotRedone
=============================================================================
