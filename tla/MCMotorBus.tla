---------------------------- MODULE MCMotorBus -----------------------------
(* Instances of MotorBus for TLC. *)
EXTENDS MotorBus

Angle == 36000      \* 360.00 degrees
Speed == 15000      \* 150.00 RPM
W == <<1, 8738>>    \* a u32

\* A command of every kind, for motor 1; the system parameters to poll and to
\* have reported are all there, but for Sys, which has no timed form.
Catalogue ==
  {trig_encoder_cal(1), reset_motor(1), reset_cur_pos_to_zero(1), reset_clog_pro(1),
   restore_motor(1), en_control(1, TRUE, FALSE), torque_control(1, 0, 500, 1000, FALSE),
   torque_lv_control(1, 1, 500, 1000, TRUE, Speed), vel_control(1, 0, 100, 12050, FALSE),
   vel_lc_control(1, 0, 500, Speed, FALSE, 2000),
   bypass_pos_lv_control(1, 1, Speed, Angle, 2, FALSE),
   bypass_pos_lv_lc_control(1, 0, Speed, Angle, 0, FALSE, 2000),
   traj_pos_control(1, 0, 500, 500, Speed, Angle, 0, FALSE),
   traj_pos_lc_control(1, 0, 500, 500, Speed, Angle, 0, FALSE, 2000),
   set_qtraj_pos_params(1, 500, 500, Speed, 1, FALSE, 2000), qtraj_pos_lc_control(1, Angle),
   stop_now(1, FALSE), synchronous_motion(0), origin_set_o(1, TRUE),
   origin_trigger_return(1, 2, FALSE), origin_interrupt(1), origin_read_params(1),
   origin_modify_params(1, TRUE, 0, 1, 30, W, 300, 800, 60, FALSE), origin_read_sl_rp(1),
   origin_modify_sl_rp(1, FALSE, 40), modify_motor_id(1, TRUE, 2), modify_micro_step(1, TRUE, 16),
   modify_pd_flag(1, TRUE), read_opt_param_sta(1), modify_motor_type(1, TRUE, FALSE),
   modify_firmware_type(1, TRUE, FALSE), modify_ctrl_mode(1, TRUE, TRUE),
   modify_motor_dir(1, TRUE, TRUE), modify_lock_btn(1, FALSE, TRUE), modify_s_vel(1, FALSE, FALSE),
   modify_om_ma(1, TRUE, 1200), modify_foc_ma(1, TRUE, 2200), read_pid_params(1),
   modify_pid_params(1, TRUE, W, W, W, W), read_dmx512_params(1),
   modify_dmx512_params(1, TRUE, 192, 1, 1, 1000, 125, 10, W), read_pos_window(1),
   modify_pos_window(1, TRUE, 8), read_otocp(1), modify_otocp(1, TRUE, 100, 6600, 1000),
   read_heart_protect(1), modify_heart_protect(1, TRUE, W), read_integral_limit(1),
   modify_integral_limit(1, TRUE, W), read_system_state_params(1), read_motor_conf_params(1)}
  \cup {read_sys_params(1, s) : s \in DOMAIN SysParams}
  \cup {auto_return_sys_params_timed(1, s, 1000) : s \in DOMAIN SysParams \ {"Sys"}}

\* The byte sequences that the tests of the example expect.
ASSUME SourceTests ==
  /\ trig_encoder_cal(1) = <<1, \h06, \h45, \h6B>>
  /\ en_control(1, TRUE, FALSE) = <<1, \hF3, \hAB, 1, 0, \h6B>>
  /\ vel_control(1, 0, 100, 12050, FALSE) = <<1, \hF6, 0, 0, \h64, 4, \hB5, 0, \h6B>>
  /\ bypass_pos_lv_lc_control(1, 0, 10000, 3600, 0, FALSE, 2000)
       = <<1, \hCB, 0, 3, \hE8, 0, 0, 1, \h68, 0, 0, 7, \hD0, \h6B>>
  /\ read_sys_params(1, "Vel") = <<1, \h35, \h6B>>
  /\ read_sys_params(1, "Sys") = <<1, \h43, \h7A, \h6B>>
  /\ Batch(0, trig_encoder_cal(1) \o stop_now(2, FALSE))
       = <<0, \hAA, 0, 14, 1, 6, \h45, \h6B, 2, \hFE, \h98, 0, \h6B, \h6B>>

Long == bypass_pos_lv_control(2, 0, Speed, Angle, 2, FALSE)
Few == {read_sys_params(1, "Vel"), read_sys_params(1, "Sys"), Long}

\* Slices that send nothing: empty, only an address, an address and a code.
Short == {<<>>, <<1>>, <<1, \h35>>}

\* Five callers: one sends one command of any kind, one a batch of any of three
\* in any order, one makes three calls, one two while a motor reports, and one
\* passes slices that are too short, before and behind a command.
Callers ==
  <<[commands |-> Catalogue, kinds |-> {"send", "poll", "await"}, calls |-> 1,
     loads |-> {}, maxLoads |-> 0, reports |-> 0],
    [commands |-> {}, kinds |-> {}, calls |-> 1,
     loads |-> {stop_now(1, FALSE), reset_cur_pos_to_zero(1), Long}, maxLoads |-> 3, reports |-> 0],
    [commands |-> Few, kinds |-> {"poll", "await"}, calls |-> 3,
     loads |-> {}, maxLoads |-> 0, reports |-> 0],
    [commands |-> Few, kinds |-> {"send", "poll", "await"}, calls |-> 2,
     loads |-> {}, maxLoads |-> 0, reports |-> 1],
    [commands |-> Short \cup {read_sys_params(1, "Vel")}, kinds |-> {"send", "poll", "await"},
     calls |-> 2, loads |-> {}, maxLoads |-> 0, reports |-> 1]>>
=============================================================================
