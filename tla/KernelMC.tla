------------------------------ MODULE KernelMC ------------------------------
EXTENDS Kernel

MCTask == {"h", "a", "b", "idle"}
Does(h, a, b) == [t \in MCTask |-> CASE t = "h" -> h [] t = "a" -> a [] t = "b" -> b [] OTHER -> {}]
Op(op) == [op |-> op]
On(op, u) == [op |-> op, thread |-> u]
Sleep(n) == [op |-> "osDelay", ticks |-> n]
SleepUntil(n) == [op |-> "osDelayUntil", until |-> n]
Set(u, f) == [op |-> "osThreadFlagsSet", thread |-> u, flags |-> f]
Wait(f, all, n) == [op |-> "osThreadFlagsWait", flags |-> f, all |-> all, clear |-> TRUE, timeout |-> n]
Take(clear, n) == [op |-> "ulTaskNotifyTake", clear |-> clear, timeout |-> n]
Note(u, action, f) == [op |-> "xTaskNotify", thread |-> u, action |-> action, flags |-> f]

Prios(h, a, b) == [t \in MCTask |-> CASE t = "h" -> h [] t = "a" -> a [] t = "b" -> b [] OTHER -> 0]
Run(name, prio, calls, isr) ==
  [name |-> name, prio |-> prio, calls |-> calls, isr |-> isr,
   watch |-> IF name = "firmware" THEN "a" ELSE "idle", tasks |-> <<"h", "a", "b">>]

MCPrograms == {
  Run("firmware", Prios(2, 1, 1), Does({Wait({0}, FALSE, 5)}, {Sleep(1)}, {Sleep(1)}), {Set("h", {0})}),
  Run("peers", Prios(1, 1, 1), Does({Sleep(2), Take(TRUE, 1)}, {}, {Op("osKernelLock")}),
      {On("vTaskNotifyGiveFromISR", "h")}),
  Run("delays", Prios(2, 1, 1),
      Does({SleepUntil(1), SleepUntil(4)}, {Sleep(1), Sleep(5), Op("osKernelLock")}, {Sleep(3)}), {}),
  Run("notify", Prios(2, 1, 1),
      Does({Wait({0, 1}, TRUE, 2), Op("osThreadFlagsGet"), [op |-> "osThreadFlagsClear", flags |-> {1}]},
           {Set("h", {0}), Set("h", {1}), Op("osKernelLock")},
           {}), {}),
  Run("locked", Prios(2, 1, 1),
      Does({Wait({0}, TRUE, 3)}, {Set("h", {0}), Op("osKernelLock")}, {}), {Set("h", {0})}),
  Run("values", Prios(2, 1, 1),
      Does({Take(TRUE, 2), Take(FALSE, 5)},
           {Note("h", "eIncrement", {}), Note("h", "eSetValueWithOverwrite", {1}),
            Note("h", "eSetValueWithoutOverwrite", {0}), On("xTaskNotifyStateClear", "h")},
           {[op |-> "ulTaskNotifyValueClear", thread |-> "h", flags |-> {0}], osThreadYield,
            [op |-> "osKernelRestoreLock", lock |-> TRUE], [op |-> "osKernelRestoreLock", lock |-> FALSE]}),
      {On("vTaskNotifyGiveFromISR", "h")}),
  Run("suspend", Prios(2, 1, 1),
      Does({Sleep(2), Wait({0}, FALSE, 5)},
           {osThreadSuspend("h"), osThreadSuspend("a")},
           {osThreadResume("h")}), {On("xTaskResumeFromISR", "a")}),
  Run("resumed", Prios(2, 1, 1),
      Does({Wait({0}, FALSE, 5)}, {},
           {Op("osKernelLock"), Note("h", "eSetBits", {0}), osThreadSuspend("h"), osThreadResume("h")}),
      {On("xTaskResumeFromISR", "h"), Set("h", {0})}),
  Run("priorities", Prios(2, 1, 1),
      Does({Sleep(1)}, {osThreadSetPriority("b", 2), osThreadSetPriority("b", 0), osThreadSetPriority("a", 1), osThreadSetPriority("a", 2), osThreadSetPriority("h", 1)},
           {Sleep(2), osThreadYield, osThreadSetPriority("h", 2)}), {}),
  Run("lifecycle", Prios(2, 1, 0),
      Does({Sleep(2)}, {osThreadNew("b"), osThreadTerminate("b"), Sleep(1), osThreadNew("h")},
           {osThreadExit, Sleep(3), Op("osThreadEnumerate")}), {})}
=============================================================================
