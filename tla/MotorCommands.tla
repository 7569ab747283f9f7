--------------------------- MODULE MotorCommands ---------------------------
(***************************************************************************)
(* The commands of the step motor controller: CommandBuilder, one operator *)
(* per function, and the system parameters that can be read.  A command is *)
(* the sequence of its bytes: address, function code, data, check byte.    *)
(*                                                                         *)
(* A float is an integer number of hundredths here, exact where f32        *)
(* rounds.  A u32 that is passed through is given as its two halves, since *)
(* TLC's integers have 32 bits and a sign.                                 *)
(***************************************************************************)
EXTENDS Integers, Sequences

CHECK == \h6B
MAX_CMD_LEN == 32

Command(addr, code, data) == <<addr, code>> \o data \o <<CHECK>>

\* to_be_bytes of a u16 and of a u32, and bool as u8.
Be16(n) == <<n \div 256, n % 256>>
Be32(halves) == Be16(halves[1]) \o Be16(halves[2])
Bit(b) == <<IF b THEN 1 ELSE 0>>

\* (x * 10.0).abs() as u16 and as u32: the sign is lost, the rest is cut off,
\* and a u16 saturates.
AbsTenths(x) == (IF x < 0 THEN -x ELSE x) \div 10
Tenths16(x) == Be16(IF AbsTenths(x) > 65535 THEN 65535 ELSE AbsTenths(x))
Tenths32(x) == Be32(<<AbsTenths(x) \div 65536, AbsTenths(x) % 65536>>)

-----------------------------------------------------------------------------
(* Triggers.                                                               *)

trig_encoder_cal(a)      == Command(a, \h06, <<\h45>>)
reset_motor(a)           == Command(a, \h08, <<\h97>>)
reset_cur_pos_to_zero(a) == Command(a, \h0A, <<\h6D>>)
reset_clog_pro(a)        == Command(a, \h0E, <<\h52>>)
restore_motor(a)         == Command(a, \h0F, <<\h5F>>)

(* Motion.                                                                 *)

en_control(a, state, sn_f) == Command(a, \hF3, <<\hAB>> \o Bit(state) \o Bit(sn_f))
torque_control(a, sign, t_ramp, torque, sn_f) ==
  Command(a, \hF5, <<sign>> \o Be16(t_ramp) \o Be16(torque) \o Bit(sn_f))
torque_lv_control(a, sign, t_ramp, torque, sn_f, max_vel) ==
  Command(a, \hC5, <<sign>> \o Be16(t_ramp) \o Be16(torque) \o Bit(sn_f) \o Tenths16(max_vel))
vel_control(a, dir, acc, vel, sn_f) ==
  Command(a, \hF6, <<dir>> \o Be16(acc) \o Tenths16(vel) \o Bit(sn_f))
vel_lc_control(a, dir, acc, vel, sn_f, max_cur) ==
  Command(a, \hC6, <<dir>> \o Be16(acc) \o Tenths16(vel) \o Bit(sn_f) \o Be16(max_cur))
bypass_pos_lv_control(a, dir, vel, pos, raf, sn_f) ==
  Command(a, \hFB, <<dir>> \o Tenths16(vel) \o Tenths32(pos) \o <<raf>> \o Bit(sn_f))
bypass_pos_lv_lc_control(a, dir, vel, pos, raf, sn_f, max_cur) ==
  Command(a, \hCB, <<dir>> \o Tenths16(vel) \o Tenths32(pos) \o <<raf>> \o Bit(sn_f)
                     \o Be16(max_cur))
traj_pos_control(a, dir, acc, dec, vel, pos, raf, sn_f) ==
  Command(a, \hFD, <<dir>> \o Be16(acc) \o Be16(dec) \o Tenths16(vel) \o Tenths32(pos)
                     \o <<raf>> \o Bit(sn_f))
traj_pos_lc_control(a, dir, acc, dec, vel, pos, raf, sn_f, max_cur) ==
  Command(a, \hCD, <<dir>> \o Be16(acc) \o Be16(dec) \o Tenths16(vel) \o Tenths32(pos)
                     \o <<raf>> \o Bit(sn_f) \o Be16(max_cur))
set_qtraj_pos_params(a, acc, dec, vel, raf, sn_f, max_cur) ==
  Command(a, \hF1, Be16(acc) \o Be16(dec) \o Tenths16(vel) \o <<raf>> \o Bit(sn_f)
                     \o Be16(max_cur))
qtraj_pos_lc_control(a, pos) == Command(a, \hFC, Tenths32(pos))
stop_now(a, sn_f)            == Command(a, \hFE, <<\h98>> \o Bit(sn_f))
synchronous_motion(a)        == Command(a, \hFF, <<\h66>>)

(* Homing.                                                                 *)

origin_set_o(a, sv_f)                  == Command(a, \h93, <<\h88>> \o Bit(sv_f))
origin_trigger_return(a, o_mode, sn_f) == Command(a, \h9A, <<o_mode>> \o Bit(sn_f))
origin_interrupt(a)                    == Command(a, \h9C, <<\h48>>)
origin_read_params(a)                  == Command(a, \h22, <<>>)
origin_modify_params(a, sv_f, o_mode, o_dir, o_vel, o_tm, sl_vel, sl_ma, sl_ms, pot_f) ==
  Command(a, \h4C, <<\hAE>> \o Bit(sv_f) \o <<o_mode, o_dir>> \o Be16(o_vel) \o Be32(o_tm)
                     \o Be16(sl_vel) \o Be16(sl_ma) \o Be16(sl_ms) \o Bit(pot_f))
origin_read_sl_rp(a)                   == Command(a, \h3F, <<>>)
origin_modify_sl_rp(a, sv_f, sl_rp)    == Command(a, \h5C, <<\hAC>> \o Bit(sv_f) \o Be16(sl_rp))

-----------------------------------------------------------------------------
(* The system parameters.                                                  *)

SysParams ==
  [VBus |-> \h24, CBus |-> \h26, CPha |-> \h27, Enco |-> \h29, Clkc |-> \h30, Encl |-> \h31,
   Clki |-> \h32, TPos |-> \h33, SPos |-> \h34, Vel |-> \h35, CPos |-> \h36, PErr |-> \h37,
   VBat |-> \h38, Temp |-> \h39, Flag |-> \h3A, OFlag |-> \h3B, Oaf |-> \h3C, Pin |-> \h3D,
   Sys |-> \h43]

\* The bytes of s.code() behind the function code, and those of s.timed_code().
aux_code(s) == IF s = "Sys" THEN <<\h7A>> ELSE <<>>
timed_code(s) == IF s = "Sys" THEN <<>> ELSE <<SysParams[s]>>

read_sys_params(a, s) == Command(a, SysParams[s], aux_code(s))
auto_return_sys_params_timed(a, s, time_ms) ==
  Command(a, \h11, <<\h18>> \o timed_code(s) \o Be16(time_ms))

(* Driver parameters.                                                      *)

modify_motor_id(a, sv_f, id)         == Command(a, \hAE, <<\h4B>> \o Bit(sv_f) \o <<id>>)
modify_micro_step(a, sv_f, mstep)    == Command(a, \h84, <<\h8A>> \o Bit(sv_f) \o <<mstep>>)
modify_pd_flag(a, pdf)               == Command(a, \h50, Bit(pdf))
read_opt_param_sta(a)                == Command(a, \h1A, <<>>)
modify_motor_type(a, sv_f, mottype)  ==
  Command(a, \hD7, <<\h35>> \o Bit(sv_f) \o <<IF mottype THEN 25 ELSE 50>>)
modify_firmware_type(a, sv_f, fw)    == Command(a, \hD5, <<\h69>> \o Bit(sv_f) \o Bit(fw))
modify_ctrl_mode(a, sv_f, mode)      == Command(a, \h46, <<\h69>> \o Bit(sv_f) \o Bit(mode))
modify_motor_dir(a, sv_f, dir)       == Command(a, \hD4, <<\h60>> \o Bit(sv_f) \o Bit(dir))
modify_lock_btn(a, sv_f, lock)       == Command(a, \hD0, <<\hB3>> \o Bit(sv_f) \o Bit(lock))
modify_s_vel(a, sv_f, s_vel)         == Command(a, \h4F, <<\h71>> \o Bit(sv_f) \o Bit(s_vel))
modify_om_ma(a, sv_f, om_ma)         == Command(a, \h44, <<\h33>> \o Bit(sv_f) \o Be16(om_ma))
modify_foc_ma(a, sv_f, foc_ma)       == Command(a, \h45, <<\h66>> \o Bit(sv_f) \o Be16(foc_ma))
read_pid_params(a)                   == Command(a, \h21, <<>>)
modify_pid_params(a, sv_f, p_tkp, p_bkp, vkp, vki) ==
  Command(a, \h4A, <<\hC3>> \o Bit(sv_f) \o Be32(p_tkp) \o Be32(p_bkp) \o Be32(vkp) \o Be32(vki))
read_dmx512_params(a)                == Command(a, \h49, <<\h78>>)
modify_dmx512_params(a, sv_f, tch, nch, mode, vel, acc, vel_step, pos_step) ==
  Command(a, \hD9, <<\h90>> \o Bit(sv_f) \o Be16(tch) \o <<nch, mode>> \o Be16(vel) \o Be16(acc)
                     \o Be16(vel_step) \o Be32(pos_step))
read_pos_window(a)                   == Command(a, \h41, <<>>)
modify_pos_window(a, sv_f, prw)      == Command(a, \hD1, <<\h07>> \o Bit(sv_f) \o Be16(prw))
read_otocp(a)                        == Command(a, \h13, <<>>)
modify_otocp(a, sv_f, otp, ocp, time_ms) ==
  Command(a, \hD3, <<\h56>> \o Bit(sv_f) \o Be16(otp) \o Be16(ocp) \o Be16(time_ms))
read_heart_protect(a)                == Command(a, \h16, <<>>)
modify_heart_protect(a, sv_f, hp)    == Command(a, \h68, <<\h38>> \o Bit(sv_f) \o Be32(hp))
read_integral_limit(a)               == Command(a, \h23, <<>>)
modify_integral_limit(a, sv_f, il)   == Command(a, \h4B, <<\h57>> \o Bit(sv_f) \o Be32(il))
read_system_state_params(a)          == Command(a, \h43, <<\h7A>>)
read_motor_conf_params(a)            == Command(a, \h42, <<\h6C>>)
=============================================================================
