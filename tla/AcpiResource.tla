---------------------------- MODULE AcpiResource ----------------------------
(***************************************************************************)
(* The resource manager of ACPICA: conversion of a resource template (the  *)
(* AML byte stream that _CRS, _PRS or _AEI returns) to a list of           *)
(* ACPI_RESOURCE structures and back, and the calculation of the buffer    *)
(* sizes both conversions rely on (rscreate.c, rslist.c, rsmisc.c,         *)
(* rscalc.c, rsutils.c, utresrc.c).                                        *)
(*                                                                         *)
(* Memory is a function from offsets to bytes, and a byte is a tuple of    *)
(* eight bits, least significant first.  A bit is 0, 1 or a symbol, a      *)
(* number > 1 that stands for whatever the firmware put there: one run     *)
(* over symbols covers every value of the fields the code only moves.      *)
(* A pointer is eight bytes of one negative number, and a read outside     *)
(* the source buffer yields Garbage.                                       *)
(***************************************************************************)
EXTENDS FiniteSets, Binding, Integers, Sequences, SequencesExt, TLC

-----------------------------------------------------------------------------
(***************************************************************************)
(* The conversion tables of ACPICA's resource manager (ACPI_RSCONVERT_INFO *)
(* arrays of rsaddr.c, rsio.c, rsirq.c, rsmemory.c and rsserial.c) and the *)
(* dispatch tables of rsinfo.c that select them.                           *)
(***************************************************************************)

-----------------------------------------------------------------------------
(***************************************************************************)
(* Resource descriptors of ACPICA, as data: the packed layouts of the AML  *)
(* descriptors (amlresrc.h) and of the ACPI_RESOURCE structures            *)
(* (acrestyp.h), and the conversion tables that the two table              *)
(* interpreters of rsmisc.c run (rsaddr.c, rsio.c, rsirq.c, rsmemory.c,    *)
(* rsserial.c), with the dispatch and size tables of rsinfo.c and          *)
(* utresrc.c.                                                              *)
(*                                                                         *)
(* A layout is the sequence of a structure's fields with their sizes.  A   *)
(* table row is <<opcode, resource offset, AML offset, value>>, as in      *)
(* ACPI_RSCONVERT_INFO.                                                    *)
(***************************************************************************)

FieldsOf(names, size) == [i \in 1 .. Len(names) |-> <<names[i], size>>]

LayoutSize(layout) == FoldLeft(LAMBDA n, f : n + f[2], 0, layout)

FieldIndex(layout, field) == CHOOSE i \in 1 .. Len(layout) : layout[i][1] = field

FieldOffset(layout, field) == LayoutSize(SubSeq(layout, 1, FieldIndex(layout, field) - 1))

-----------------------------------------------------------------------------
(* AML descriptors *)

SmallHeader == <<<<"DescriptorType", 1>>>>
LargeHeader == <<<<"DescriptorType", 1>>, <<"ResourceLength", 2>>>>

\* AML_RESOURCE_ADDRESS_COMMON followed by the five address fields
AddressAttributes ==
  <<"Granularity", "Minimum", "Maximum", "TranslationOffset", "AddressLength">>

AmlAddress(width) ==
  LargeHeader \o FieldsOf(<<"ResourceType", "Flags", "SpecificFlags">>, 1)
              \o FieldsOf(AddressAttributes, width)

AmlSerial == LargeHeader
  \o FieldsOf(<<"RevisionId", "ResSourceIndex", "Type", "Flags">>, 1)
  \o <<<<"TypeSpecificFlags", 2>>, <<"TypeRevisionId", 1>>, <<"TypeDataLength", 2>>>>

AmlSourceOffsets == <<<<"ResSourceIndex", 1>>, <<"ResSourceOffset", 2>>,
                      <<"VendorOffset", 2>>, <<"VendorLength", 2>>>>

AmlLabelOffsets == <<<<"ResSourceIndex", 1>>, <<"ResSourceOffset", 2>>,
  <<"ResSourceLabelOffset", 2>>, <<"VendorOffset", 2>>, <<"VendorLength", 2>>>>

AmlRevFlags == LargeHeader \o <<<<"RevisionId", 1>>, <<"Flags", 2>>>>

AmlSmallLayout == [
  Irq         |-> SmallHeader \o <<<<"IrqMask", 2>>, <<"Flags", 1>>>>,
  Dma         |-> SmallHeader \o FieldsOf(<<"DmaChannelMask", "Flags">>, 1),
  StartDpf    |-> SmallHeader \o <<<<"Flags", 1>>>>,
  EndDpf      |-> SmallHeader,
  Io          |-> SmallHeader \o <<<<"Flags", 1>>, <<"Minimum", 2>>, <<"Maximum", 2>>,
                                   <<"Alignment", 1>>, <<"AddressLength", 1>>>>,
  FixedIo     |-> SmallHeader \o <<<<"Address", 2>>, <<"AddressLength", 1>>>>,
  FixedDma    |-> SmallHeader \o <<<<"RequestLines", 2>>, <<"Channels", 2>>, <<"Width", 1>>>>,
  VendorSmall |-> SmallHeader,
  EndTag      |-> SmallHeader \o <<<<"Checksum", 1>>>>]

AmlMemoryLayout == [
  Memory24      |-> LargeHeader \o <<<<"Flags", 1>>>>
                    \o FieldsOf(<<"Minimum", "Maximum", "Alignment", "AddressLength">>, 2),
  VendorLarge   |-> LargeHeader,
  Memory32      |-> LargeHeader \o <<<<"Flags", 1>>>>
                    \o FieldsOf(<<"Minimum", "Maximum", "Alignment", "AddressLength">>, 4),
  FixedMemory32 |-> LargeHeader \o <<<<"Flags", 1>>>>
                    \o FieldsOf(<<"Address", "AddressLength">>, 4),
  Address16     |-> AmlAddress(2),
  Address32     |-> AmlAddress(4),
  Address64     |-> AmlAddress(8),
  ExtAddress64  |-> LargeHeader
                    \o FieldsOf(<<"ResourceType", "Flags", "SpecificFlags",
                                "RevisionID", "Reserved">>, 1)
                    \o FieldsOf(AddressAttributes \o <<"TypeSpecific">>, 8),
  ExtIrq        |-> LargeHeader \o FieldsOf(<<"Flags", "InterruptCount">>, 1)
                    \o <<<<"Interrupts", 4>>>>,
  GenericReg    |-> LargeHeader
                    \o FieldsOf(<<"AddressSpaceId", "BitWidth", "BitOffset", "AccessSize">>, 1)
                    \o <<<<"Address", 8>>>>]

AmlSerialLayout == [
  Csi2 |-> AmlSerial,
  I2c  |-> AmlSerial \o <<<<"ConnectionSpeed", 4>>, <<"SlaveAddress", 2>>>>,
  Spi  |-> AmlSerial \o <<<<"ConnectionSpeed", 4>>, <<"DataBitLength", 1>>,
             <<"ClockPhase", 1>>, <<"ClockPolarity", 1>>, <<"DeviceSelection", 2>>>>,
  Uart |-> AmlSerial \o <<<<"DefaultBaudRate", 4>>, <<"RxFifoSize", 2>>,
             <<"TxFifoSize", 2>>, <<"Parity", 1>>, <<"LinesEnabled", 1>>>>]

AmlPinLayout == [
  Gpio |-> LargeHeader \o <<<<"RevisionId", 1>>, <<"ConnectionType", 1>>, <<"Flags", 2>>,
             <<"IntFlags", 2>>, <<"PinConfig", 1>>, <<"DriveStrength", 2>>,
             <<"DebounceTimeout", 2>>, <<"PinTableOffset", 2>>>> \o AmlSourceOffsets,
  PinFunction |-> AmlRevFlags \o <<<<"PinConfig", 1>>, <<"FunctionNumber", 2>>,
                    <<"PinTableOffset", 2>>>> \o AmlSourceOffsets,
  PinConfig |-> AmlRevFlags \o <<<<"PinConfigType", 1>>, <<"PinConfigValue", 4>>,
                    <<"PinTableOffset", 2>>>> \o AmlSourceOffsets,
  ClockInput |-> AmlRevFlags \o <<<<"FrequencyDivisor", 2>>, <<"FrequencyNumerator", 4>>>>,
  PinGroup |-> AmlRevFlags
               \o FieldsOf(<<"PinTableOffset", "LabelOffset", "VendorOffset", "VendorLength">>, 2),
  PinGroupFunction |-> AmlRevFlags \o <<<<"FunctionNumber", 2>>>> \o AmlLabelOffsets,
  PinGroupConfig |-> AmlRevFlags \o <<<<"PinConfigType", 1>>, <<"PinConfigValue", 4>>>>
                     \o AmlLabelOffsets]

AmlLayout == AmlSmallLayout @@ AmlMemoryLayout @@ AmlSerialLayout @@ AmlPinLayout

-----------------------------------------------------------------------------
(* ACPI_RESOURCE structures: the fields after the Type and Length header    *)

RsSource == <<<<"SourceIndex", 1>>, <<"StringLength", 2>>, <<"StringPtr", 8>>>>
RsLabel  == <<<<"LabelLength", 2>>, <<"LabelPtr", 8>>>>

\* ACPI_RESOURCE_ADDRESS_COMMON: the attribute union holds the memory flags,
\* the I/O flags or one type-specific byte
RsAddressCommon ==
  FieldsOf(<<"ResourceType", "ProducerConsumer", "Decode", "MinAddressFixed",
             "MaxAddressFixed", "Info0", "Info1", "Info2", "Info3">>, 1)

RsAddress(width) == RsAddressCommon \o FieldsOf(AddressAttributes, width) \o RsSource

RsSerial ==
  FieldsOf(<<"RevisionId", "Type", "ProducerConsumer", "SlaveMode",
             "ConnectionSharing", "TypeRevisionId">>, 1)
  \o FieldsOf(<<"TypeDataLength", "VendorLength">>, 2)
  \o RsSource \o <<<<"VendorData", 8>>>>

RsPinTail == FieldsOf(<<"PinTableLength", "VendorLength">>, 2)
             \o RsSource \o FieldsOf(<<"PinTable", "VendorData">>, 8)

RsLabelTail == <<<<"VendorLength", 2>>>> \o RsSource \o RsLabel \o <<<<"VendorData", 8>>>>

RsSmallLayout == [
  Irq      |-> FieldsOf(<<"DescriptorLength", "Triggering", "Polarity", "Shareable",
                          "WakeCapable", "InterruptCount", "Interrupts">>, 1),
  Dma      |-> FieldsOf(<<"Type", "BusMaster", "Transfer", "ChannelCount", "Channels">>, 1),
  StartDpf |-> FieldsOf(<<"DescriptorLength", "CompatibilityPriority",
                          "PerformanceRobustness">>, 1),
  Io       |-> FieldsOf(<<"IoDecode", "Alignment", "AddressLength">>, 1)
               \o FieldsOf(<<"Minimum", "Maximum">>, 2),
  FixedIo  |-> <<<<"Address", 2>>, <<"AddressLength", 1>>>>,
  FixedDma |-> <<<<"RequestLines", 2>>, <<"Channels", 2>>, <<"Width", 1>>>>,
  Vendor   |-> <<<<"ByteLength", 2>>, <<"ByteData", 0>>>>,
  Memory24 |-> <<<<"WriteProtect", 1>>>>
               \o FieldsOf(<<"Minimum", "Maximum", "Alignment", "AddressLength">>, 2),
  Memory32 |-> <<<<"WriteProtect", 1>>>>
               \o FieldsOf(<<"Minimum", "Maximum", "Alignment", "AddressLength">>, 4),
  FixedMemory32 |-> <<<<"WriteProtect", 1>>>> \o FieldsOf(<<"Address", "AddressLength">>, 4)]

RsAddressLayout == [
  Address16    |-> RsAddress(2),
  Address32    |-> RsAddress(4),
  Address64    |-> RsAddress(8),
  ExtAddress64 |-> RsAddressCommon \o <<<<"RevisionID", 1>>>>
                   \o FieldsOf(AddressAttributes \o <<"TypeSpecific">>, 8),
  ExtIrq       |-> FieldsOf(<<"ProducerConsumer", "Triggering", "Polarity", "Shareable",
                              "WakeCapable", "InterruptCount">>, 1)
                   \o RsSource \o <<<<"Interrupts", 4>>>>,
  GenericReg   |-> FieldsOf(<<"SpaceId", "BitWidth", "BitOffset", "AccessSize">>, 1)
                   \o <<<<"Address", 8>>>>]

RsSerialLayout == [
  Csi2 |-> RsSerial \o FieldsOf(<<"LocalPortInstance", "PhyType">>, 1),
  I2c  |-> RsSerial \o <<<<"AccessMode", 1>>, <<"SlaveAddress", 2>>, <<"ConnectionSpeed", 4>>>>,
  Spi  |-> RsSerial \o FieldsOf(<<"WireMode", "DevicePolarity", "DataBitLength",
                                 "ClockPhase", "ClockPolarity">>, 1)
                    \o <<<<"DeviceSelection", 2>>, <<"ConnectionSpeed", 4>>>>,
  Uart |-> RsSerial \o FieldsOf(<<"Endian", "DataBits", "StopBits", "FlowControl",
                                 "Parity", "LinesEnabled">>, 1)
                    \o <<<<"RxFifoSize", 2>>, <<"TxFifoSize", 2>>, <<"DefaultBaudRate", 4>>>>]

RsPinLayout == [
  Gpio |-> FieldsOf(<<"RevisionId", "ConnectionType", "ProducerConsumer", "PinConfig",
                      "Shareable", "WakeCapable", "IoRestriction", "Triggering",
                      "Polarity">>, 1)
           \o FieldsOf(<<"DriveStrength", "DebounceTimeout">>, 2) \o RsPinTail,
  PinFunction |-> FieldsOf(<<"RevisionId", "PinConfig", "Shareable">>, 1)
                  \o <<<<"FunctionNumber", 2>>>> \o RsPinTail,
  PinConfig |-> FieldsOf(<<"RevisionId", "ProducerConsumer", "Shareable",
                           "PinConfigType">>, 1)
                \o <<<<"PinConfigValue", 4>>>> \o RsPinTail,
  ClockInput |-> FieldsOf(<<"RevisionId", "Mode", "Scale">>, 1)
                 \o <<<<"FrequencyDivisor", 2>>, <<"FrequencyNumerator", 4>>>> \o RsSource,
  PinGroup |-> FieldsOf(<<"RevisionId", "ProducerConsumer">>, 1)
               \o FieldsOf(<<"PinTableLength", "VendorLength">>, 2)
               \o <<<<"PinTable", 8>>>> \o RsLabel \o <<<<"VendorData", 8>>>>,
  PinGroupFunction |-> FieldsOf(<<"RevisionId", "ProducerConsumer", "Shareable">>, 1)
                       \o <<<<"FunctionNumber", 2>>>> \o RsLabelTail,
  PinGroupConfig |-> FieldsOf(<<"RevisionId", "ProducerConsumer", "Shareable",
                                "PinConfigType">>, 1)
                     \o <<<<"PinConfigValue", 4>>>> \o RsLabelTail]

RsLayout == RsSmallLayout @@ RsAddressLayout @@ RsSerialLayout @@ RsPinLayout

RoundUp(n) == ((n + 7) \div 8) * 8   \* ACPI_ROUND_UP_TO_NATIVE_WORD

RsSizeMin == RoundUp(12)              \* ACPI_RS_SIZE_MIN

RsSize(type) ==                       \* ACPI_RS_SIZE
  IF type \in DOMAIN RsLayout THEN 8 + LayoutSize(RsLayout[type]) ELSE RsSizeMin

-----------------------------------------------------------------------------

R(type, field) == 8 + FieldOffset(RsLayout[type], field)
A(type, field) == FieldOffset(AmlLayout[type], field)

Row(type, op, rsField, amlField, value) ==
  <<op, R(type, rsField), A(type, amlField), value>>

\* a row whose two fields have the same name
Same(type, op, field, value) == Row(type, op, field, field, value)

InitGet(type) == <<"INITGET", 0, 0, RsSize(type)>>
InitSet(name) == <<"INITSET", name, 0, LayoutSize(AmlLayout[name])>>

Both(type) == <<InitGet(type), InitSet(type)>>

-----------------------------------------------------------------------------
(* rsaddr.c *)

AddressTable(type, move, count) == Both(type) \o
  <<<<"ADDRESS", 0, 0, 0>>, Same(type, move, "Granularity", count),
    <<"SOURCE", R(type, "SourceIndex"), 0, LayoutSize(AmlLayout[type])>>>>

ConvertAddress16 == AddressTable("Address16", "MOVE16", 5)
ConvertAddress32 == AddressTable("Address32", "MOVE32", 5)
ConvertAddress64 == AddressTable("Address64", "MOVE64", 5)

ConvertExtAddress64 == Both("ExtAddress64") \o
  <<<<"ADDRESS", 0, 0, 0>>, Same("ExtAddress64", "MOVE8", "RevisionID", 1),
    Same("ExtAddress64", "MOVE64", "Granularity", 6)>>

\* the offsets of the common part are those of every address descriptor
GeneralFlags ==
  <<<<"FLAGINIT", 0, A("Address16", "Flags"), 0>>,
    Same("Address16", "MOVE8", "ResourceType", 1),
    Row("Address16", "1BITFLAG", "ProducerConsumer", "Flags", 0),
    Row("Address16", "1BITFLAG", "Decode", "Flags", 1),
    Row("Address16", "1BITFLAG", "MinAddressFixed", "Flags", 2),
    Row("Address16", "1BITFLAG", "MaxAddressFixed", "Flags", 3)>>

MemFlags ==
  <<<<"FLAGINIT", 0, A("Address16", "SpecificFlags"), 0>>,
    Row("Address16", "1BITFLAG", "Info0", "SpecificFlags", 0),
    Row("Address16", "2BITFLAG", "Info1", "SpecificFlags", 1),
    Row("Address16", "2BITFLAG", "Info2", "SpecificFlags", 3),
    Row("Address16", "1BITFLAG", "Info3", "SpecificFlags", 5)>>

IoFlags ==
  <<<<"FLAGINIT", 0, A("Address16", "SpecificFlags"), 0>>,
    Row("Address16", "2BITFLAG", "Info0", "SpecificFlags", 0),
    Row("Address16", "1BITFLAG", "Info1", "SpecificFlags", 4),
    Row("Address16", "1BITFLAG", "Info2", "SpecificFlags", 5)>>

-----------------------------------------------------------------------------
(* rsio.c *)

ConvertIo == Both("Io") \o
  <<Row("Io", "1BITFLAG", "IoDecode", "Flags", 0),
    Same("Io", "MOVE8", "Alignment", 2), Same("Io", "MOVE16", "Minimum", 2)>>

ConvertFixedIo == Both("FixedIo") \o
  <<Same("FixedIo", "MOVE8", "AddressLength", 1), Same("FixedIo", "MOVE16", "Address", 1)>>

ConvertGenericReg == Both("GenericReg") \o
  <<Row("GenericReg", "MOVE8", "SpaceId", "AddressSpaceId", 4),
    Same("GenericReg", "MOVE64", "Address", 1)>>

ConvertEndDpf == Both("EndDpf")
ConvertEndTag == Both("EndTag")

AcceptableConfiguration == 1

GetStartDpf ==
  <<InitGet("StartDpf"),
    <<"SET8", R("StartDpf", "CompatibilityPriority"), AcceptableConfiguration, 2>>,
    Row("StartDpf", "1BITFLAG", "DescriptorLength", "DescriptorType", 0),
    <<"EXIT_NE_LENGTH", 0, 0, 1>>,
    Row("StartDpf", "2BITFLAG", "CompatibilityPriority", "Flags", 0),
    Row("StartDpf", "2BITFLAG", "PerformanceRobustness", "Flags", 2)>>

\* the lengths without the optional last byte (..._NOPRIO, ..._NOFLAGS)
NoFlags(type) == LayoutSize(AmlLayout[type]) - 1

SetStartDpf ==
  <<InitSet("StartDpf"),
    Row("StartDpf", "2BITFLAG", "CompatibilityPriority", "Flags", 0),
    Row("StartDpf", "2BITFLAG", "PerformanceRobustness", "Flags", 2),
    <<"EXIT_EQ", R("StartDpf", "DescriptorLength"), 0, 1>>,
    <<"LENGTH", 0, 0, NoFlags("StartDpf")>>,
    <<"EXIT_EQ", R("StartDpf", "DescriptorLength"), 0, 0>>,
    <<"LENGTH", 0, 0, LayoutSize(AmlLayout["StartDpf"])>>,
    <<"EXIT_NE", R("StartDpf", "CompatibilityPriority"), 0, AcceptableConfiguration>>,
    <<"EXIT_NE", R("StartDpf", "PerformanceRobustness"), 0, AcceptableConfiguration>>,
    <<"LENGTH", 0, 0, NoFlags("StartDpf")>>>>

-----------------------------------------------------------------------------
(* rsirq.c *)

IrqFlags ==
  <<Row("Irq", "1BITFLAG", "Triggering", "Flags", 0),
    Row("Irq", "1BITFLAG", "Polarity", "Flags", 3),
    Row("Irq", "1BITFLAG", "Shareable", "Flags", 4),
    Row("Irq", "1BITFLAG", "WakeCapable", "Flags", 5)>>

IrqBitmask ==
  <<"BITMASK16", R("Irq", "Interrupts"), A("Irq", "IrqMask"), R("Irq", "InterruptCount")>>

EdgeSensitive == 1
ActiveHigh == 0
Exclusive == 0

GetIrq ==
  <<InitGet("Irq"), IrqBitmask, <<"SET8", R("Irq", "Triggering"), EdgeSensitive, 1>>,
    Row("Irq", "2BITFLAG", "DescriptorLength", "DescriptorType", 0),
    <<"EXIT_NE_LENGTH", 0, 0, 3>>>> \o IrqFlags

SetIrq ==
  <<InitSet("Irq"), IrqBitmask>> \o IrqFlags \o
  <<<<"EXIT_EQ", R("Irq", "DescriptorLength"), 0, 3>>,
    <<"LENGTH", 0, 0, NoFlags("Irq")>>,
    <<"EXIT_EQ", R("Irq", "DescriptorLength"), 0, 2>>,
    <<"LENGTH", 0, 0, LayoutSize(AmlLayout["Irq"])>>,
    <<"EXIT_NE", R("Irq", "Triggering"), 0, EdgeSensitive>>,
    <<"EXIT_NE", R("Irq", "Polarity"), 0, ActiveHigh>>,
    <<"EXIT_NE", R("Irq", "Shareable"), 0, Exclusive>>,
    <<"LENGTH", 0, 0, NoFlags("Irq")>>>>

ConvertExtIrq == Both("ExtIrq") \o
  <<Row("ExtIrq", "1BITFLAG", "ProducerConsumer", "Flags", 0),
    Row("ExtIrq", "1BITFLAG", "Triggering", "Flags", 1),
    Row("ExtIrq", "1BITFLAG", "Polarity", "Flags", 2),
    Row("ExtIrq", "1BITFLAG", "Shareable", "Flags", 3),
    Row("ExtIrq", "1BITFLAG", "WakeCapable", "Flags", 4),
    Same("ExtIrq", "COUNT", "InterruptCount", 4),
    Same("ExtIrq", "MOVE32", "Interrupts", 0),
    <<"SOURCEX", R("ExtIrq", "SourceIndex"), R("ExtIrq", "Interrupts"),
      LayoutSize(AmlLayout["ExtIrq"])>>>>

ConvertDma == Both("Dma") \o
  <<Row("Dma", "2BITFLAG", "Transfer", "Flags", 0),
    Row("Dma", "1BITFLAG", "BusMaster", "Flags", 2),
    Row("Dma", "2BITFLAG", "Type", "Flags", 5),
    <<"BITMASK", R("Dma", "Channels"), A("Dma", "DmaChannelMask"), R("Dma", "ChannelCount")>>>>

ConvertFixedDma == Both("FixedDma") \o
  <<Same("FixedDma", "MOVE16", "RequestLines", 2), Same("FixedDma", "MOVE8", "Width", 1)>>

-----------------------------------------------------------------------------
(* rsmemory.c *)

ConvertMemory24 == Both("Memory24") \o
  <<Row("Memory24", "1BITFLAG", "WriteProtect", "Flags", 0),
    Same("Memory24", "MOVE16", "Minimum", 4)>>

ConvertMemory32 == Both("Memory32") \o
  <<Row("Memory32", "1BITFLAG", "WriteProtect", "Flags", 0),
    Same("Memory32", "MOVE32", "Minimum", 4)>>

ConvertFixedMemory32 == Both("FixedMemory32") \o
  <<Row("FixedMemory32", "1BITFLAG", "WriteProtect", "Flags", 0),
    Same("FixedMemory32", "MOVE32", "Address", 2)>>

GetVendor(header) ==
  <<InitGet("Vendor"), <<"COUNT16", R("Vendor", "ByteLength"), 0, 1>>,
    <<"MOVE8", R("Vendor", "ByteData"), LayoutSize(header), 0>>>>

GetVendorSmall == GetVendor(SmallHeader)
GetVendorLarge == GetVendor(LargeHeader)

SetVendorAs(name, header) ==
  <<InitSet(name), <<"COUNT16", R("Vendor", "ByteLength"), 0, 0>>,
    <<"MOVE8", R("Vendor", "ByteData"), LayoutSize(header), 0>>>>

SetVendor == SetVendorAs("VendorSmall", SmallHeader)
             \o <<<<"EXIT_LE", 0, 0, 7>>>>
             \o SetVendorAs("VendorLarge", LargeHeader)

-----------------------------------------------------------------------------
(* rsserial.c: descriptors with a pin table, a source string and vendor data *)

\* the pin table runs from its offset to the offset in field next
PinTableRows(type, next) ==
  <<<<"COUNT_GPIO_PIN", R(type, "PinTableLength"), A(type, "PinTableOffset"), A(type, next)>>,
    Row(type, "MOVE_GPIO_PIN", "PinTable", "PinTableOffset", 0)>>

\* a string runs from its offset to the offset in field next
StringRows(type, len, ptr, offset, next) ==
  <<<<"COUNT_GPIO_RES", R(type, len), A(type, offset), A(type, next)>>,
    Row(type, "MOVE_GPIO_RES", ptr, offset, 0)>>

SourceRows(type, next) ==
  <<Row(type, "MOVE8", "SourceIndex", "ResSourceIndex", 1)>>
  \o StringRows(type, "StringLength", "StringPtr", "ResSourceOffset", next)

VendorRows(type) ==
  <<Same(type, "COUNT_GPIO_VEN", "VendorLength", 1),
    Row(type, "MOVE_GPIO_RES", "VendorData", "VendorOffset", 0)>>

PinRows(type) == PinTableRows(type, "ResSourceOffset")
                 \o SourceRows(type, "VendorOffset") \o VendorRows(type)

LabelRows(type) ==
  SourceRows(type, "ResSourceLabelOffset")
  \o StringRows(type, "LabelLength", "LabelPtr", "ResSourceLabelOffset", "VendorOffset")
  \o VendorRows(type)

ConvertGpio == Both("Gpio") \o
  <<Same("Gpio", "MOVE8", "RevisionId", 2),
    Row("Gpio", "1BITFLAG", "ProducerConsumer", "Flags", 0),
    Row("Gpio", "1BITFLAG", "Shareable", "IntFlags", 3),
    Row("Gpio", "1BITFLAG", "WakeCapable", "IntFlags", 4),
    Row("Gpio", "2BITFLAG", "IoRestriction", "IntFlags", 0),
    Row("Gpio", "1BITFLAG", "Triggering", "IntFlags", 0),
    Row("Gpio", "2BITFLAG", "Polarity", "IntFlags", 1),
    Same("Gpio", "MOVE8", "PinConfig", 1),
    Same("Gpio", "MOVE16", "DriveStrength", 2)>> \o PinRows("Gpio")

ConvertClockInput == Both("ClockInput") \o
  <<Same("ClockInput", "MOVE8", "RevisionId", 1),
    Row("ClockInput", "1BITFLAG", "Mode", "Flags", 0),
    Row("ClockInput", "2BITFLAG", "Scale", "Flags", 1),
    Same("ClockInput", "MOVE16", "FrequencyDivisor", 2),
    Same("ClockInput", "MOVE32", "FrequencyNumerator", 4),
    <<"SOURCE", R("ClockInput", "SourceIndex"), 0, LayoutSize(AmlLayout["ClockInput"])>>>>

ConvertPinFunction == Both("PinFunction") \o
  <<Same("PinFunction", "MOVE8", "RevisionId", 1),
    Row("PinFunction", "1BITFLAG", "Shareable", "Flags", 0),
    Same("PinFunction", "MOVE8", "PinConfig", 1),
    Same("PinFunction", "MOVE16", "FunctionNumber", 2)>> \o PinRows("PinFunction")

ConfigRows(type) ==
  <<Same(type, "MOVE8", "RevisionId", 1),
    Row(type, "1BITFLAG", "Shareable", "Flags", 0),
    Row(type, "1BITFLAG", "ProducerConsumer", "Flags", 1),
    Same(type, "MOVE8", "PinConfigType", 1),
    Same(type, "MOVE32", "PinConfigValue", 1)>>

ConvertPinConfig == Both("PinConfig") \o ConfigRows("PinConfig") \o PinRows("PinConfig")

ConvertPinGroup == Both("PinGroup") \o
  <<Same("PinGroup", "MOVE8", "RevisionId", 1),
    Row("PinGroup", "1BITFLAG", "ProducerConsumer", "Flags", 0)>>
  \o PinTableRows("PinGroup", "LabelOffset")
  \o StringRows("PinGroup", "LabelLength", "LabelPtr", "LabelOffset", "VendorOffset")
  \o VendorRows("PinGroup")

ConvertPinGroupFunction == Both("PinGroupFunction") \o
  <<Same("PinGroupFunction", "MOVE8", "RevisionId", 1),
    Row("PinGroupFunction", "1BITFLAG", "Shareable", "Flags", 0),
    Row("PinGroupFunction", "1BITFLAG", "ProducerConsumer", "Flags", 1),
    Same("PinGroupFunction", "MOVE16", "FunctionNumber", 1)>>
  \o LabelRows("PinGroupFunction")

ConvertPinGroupConfig ==
  Both("PinGroupConfig") \o ConfigRows("PinGroupConfig") \o LabelRows("PinGroupConfig")

-----------------------------------------------------------------------------
(* rsserial.c: serial buses *)

\* vendor data and source string follow the type-specific data, whose length
\* the descriptor states; minData is the length without vendor data
SerialDataRows(type, minData, common) ==
  <<Row(type, "COUNT_SERIAL_VEN", "VendorLength", "TypeDataLength", minData),
    <<"MOVE_SERIAL_VEN", R(type, "VendorData"), 0, LayoutSize(AmlLayout[type])>>,
    Row(type, "MOVE8", "SourceIndex", "ResSourceIndex", 1),
    Row(type, "COUNT_SERIAL_RES", "StringLength", "TypeDataLength", common),
    Row(type, "MOVE_SERIAL_RES", "StringPtr", "TypeDataLength", common)>>

SerialRows(type, minData) ==
  <<Same(type, "MOVE8", "RevisionId", 1), Same(type, "MOVE8", "Type", 1),
    Row(type, "1BITFLAG", "SlaveMode", "Flags", 0),
    Row(type, "1BITFLAG", "ProducerConsumer", "Flags", 1),
    Row(type, "1BITFLAG", "ConnectionSharing", "Flags", 2),
    Same(type, "MOVE8", "TypeRevisionId", 1), Same(type, "MOVE16", "TypeDataLength", 1)>>
  \o SerialDataRows(type, minData, LayoutSize(AmlSerial))

ConvertCsi2 == Both("Csi2") \o
  <<Same("Csi2", "MOVE8", "RevisionId", 1), Same("Csi2", "MOVE8", "Type", 1),
    Row("Csi2", "1BITFLAG", "ProducerConsumer", "Flags", 1),
    Row("Csi2", "1BITFLAG", "SlaveMode", "Flags", 0),
    Row("Csi2", "2BITFLAG", "PhyType", "TypeSpecificFlags", 0),
    Row("Csi2", "6BITFLAG", "LocalPortInstance", "TypeSpecificFlags", 2),
    Same("Csi2", "MOVE8", "TypeRevisionId", 1)>>
  \o SerialDataRows("Csi2", 0, LayoutSize(AmlLayout["Csi2"]))

ConvertI2c == Both("I2c") \o SerialRows("I2c", 6) \o
  <<Row("I2c", "1BITFLAG", "AccessMode", "TypeSpecificFlags", 0),
    Same("I2c", "MOVE32", "ConnectionSpeed", 1), Same("I2c", "MOVE16", "SlaveAddress", 1)>>

ConvertSpi == Both("Spi") \o SerialRows("Spi", 9) \o
  <<Row("Spi", "1BITFLAG", "WireMode", "TypeSpecificFlags", 0),
    Row("Spi", "1BITFLAG", "DevicePolarity", "TypeSpecificFlags", 1),
    Same("Spi", "MOVE8", "DataBitLength", 1), Same("Spi", "MOVE8", "ClockPhase", 1),
    Same("Spi", "MOVE8", "ClockPolarity", 1), Same("Spi", "MOVE16", "DeviceSelection", 1),
    Same("Spi", "MOVE32", "ConnectionSpeed", 1)>>

ConvertUart == Both("Uart") \o SerialRows("Uart", 10) \o
  <<Row("Uart", "2BITFLAG", "FlowControl", "TypeSpecificFlags", 0),
    Row("Uart", "2BITFLAG", "StopBits", "TypeSpecificFlags", 2),
    Row("Uart", "3BITFLAG", "DataBits", "TypeSpecificFlags", 4),
    Row("Uart", "1BITFLAG", "Endian", "TypeSpecificFlags", 7),
    Same("Uart", "MOVE8", "Parity", 1), Same("Uart", "MOVE8", "LinesEnabled", 1),
    Same("Uart", "MOVE16", "RxFifoSize", 1), Same("Uart", "MOVE16", "TxFifoSize", 1),
    Same("Uart", "MOVE32", "DefaultBaudRate", 1)>>

-----------------------------------------------------------------------------
(* rsinfo.c *)

SerialBusDispatch == [I2c |-> ConvertI2c, Spi |-> ConvertSpi, Uart |-> ConvertUart,
                      Csi2 |-> ConvertCsi2]

CommonDispatch == [
  Dma |-> ConvertDma, EndDpf |-> ConvertEndDpf, Io |-> ConvertIo, FixedIo |-> ConvertFixedIo,
  FixedDma |-> ConvertFixedDma, EndTag |-> ConvertEndTag, Memory24 |-> ConvertMemory24,
  GenericReg |-> ConvertGenericReg, Memory32 |-> ConvertMemory32,
  FixedMemory32 |-> ConvertFixedMemory32, Address16 |-> ConvertAddress16,
  Address32 |-> ConvertAddress32, Address64 |-> ConvertAddress64,
  ExtAddress64 |-> ConvertExtAddress64, ExtIrq |-> ConvertExtIrq, Gpio |-> ConvertGpio,
  PinFunction |-> ConvertPinFunction, PinConfig |-> ConvertPinConfig,
  PinGroup |-> ConvertPinGroup, PinGroupFunction |-> ConvertPinGroupFunction,
  PinGroupConfig |-> ConvertPinGroupConfig, ClockInput |-> ConvertClockInput]

GetResourceDispatch == CommonDispatch @@ SerialBusDispatch @@
  [Irq |-> GetIrq, StartDpf |-> GetStartDpf,
   VendorSmall |-> GetVendorSmall, VendorLarge |-> GetVendorLarge]

SetResourceDispatch == CommonDispatch @@ SerialBusDispatch @@
  [Irq |-> SetIrq, StartDpf |-> SetStartDpf, Vendor |-> SetVendor]

\* the ACPI_RESOURCE type a descriptor becomes (the INITGET row)
RsType(name) == IF name \in {"VendorSmall", "VendorLarge"} THEN "Vendor" ELSE name

-----------------------------------------------------------------------------

CONSTANTS Gbl_GetResourceDispatch,  \* the tables of AcpiRsConvert, by
          Gbl_SetResourceDispatch   \* resource, for each direction

Byte(n) == [i \in 1 .. 8 |-> (n \div 2^(i - 1)) % 2]

Number(byte) == FoldLeft(LAMBDA n, i : 2 * n + byte[9 - i], 0, [i \in 1 .. 8 |-> i])

Garbage == [i \in 1 .. 8 |-> -1]

SymbolAt(offset) == [i \in 1 .. 8 |-> 1 + 8 * offset + i]

PointerTo(offset) == [k \in 1 .. 8 |-> [i \in 1 .. 8 |-> -2 - offset]]

Target(byte) == -2 - byte[1]

Read(mem, o) == IF o \in DOMAIN mem THEN mem[o] ELSE Garbage

Put(mem, o, bytes) ==
  [i \in DOMAIN mem \cup o .. o + Len(bytes) - 1 |->
     IF i \in o .. o + Len(bytes) - 1 THEN bytes[i - o + 1] ELSE mem[i]]

Get8(mem, o)  == Number(Read(mem, o))
Get16(mem, o) == Get8(mem, o) + 256 * Get8(mem, o + 1)
Set8(mem, o, n)  == Put(mem, o, <<Byte(n % 256)>>)
Set16(mem, o, n) == Put(mem, o, <<Byte(n % 256), Byte((n \div 256) % 256)>>)

Memset(mem, o, n, count) == Put(mem, o, [i \in 1 .. count |-> Byte(n)])

Memcpy(dst, d, src, s, count) == Put(dst, d, [i \in 1 .. count |-> Read(src, s + i - 1)])

\* acpi_strlen: up to the first byte that is zero
Strlen(mem, o) ==
  CHOOSE n \in 0 .. Cardinality(DOMAIN mem) :
    /\ Read(mem, o + n) \in {Byte(0), Garbage}
    /\ \A k \in 0 .. n - 1 : Read(mem, o + k) \notin {Byte(0), Garbage}

OrBits(a, b) == IF a = 0 THEN b ELSE IF b = 0 \/ a = b THEN a ELSE -1

-----------------------------------------------------------------------------
(* utresrc.c *)

SmallCode == [Irq |-> 32, Dma |-> 40, StartDpf |-> 48, EndDpf |-> 56, Io |-> 64,
  FixedIo |-> 72, FixedDma |-> 80, VendorSmall |-> 112, EndTag |-> 120]

LargeCode == [Memory24 |-> 129, GenericReg |-> 130, VendorLarge |-> 132, Memory32 |-> 133,
  FixedMemory32 |-> 134, Address32 |-> 135, Address16 |-> 136, ExtIrq |-> 137,
  Address64 |-> 138, ExtAddress64 |-> 139, Gpio |-> 140, PinFunction |-> 141,
  SerialBus |-> 142, PinConfig |-> 143, PinGroup |-> 144, PinGroupFunction |-> 145,
  PinGroupConfig |-> 146, ClockInput |-> 147]

SerialTypes == <<"I2c", "Spi", "Uart", "Csi2">>

Code(name) == IF name \in ToSet(SerialTypes) THEN LargeCode["SerialBus"]
              ELSE (SmallCode @@ LargeCode)[name]

\* AcpiUtGetResourceType
ResourceType(aml, o) ==
  With(Get8(aml, o), LAMBDA b :
                           IF b >= 128 THEN b ELSE b - (b % 8))

\* AcpiUtGetResourceLength, AcpiUtGetResourceHeaderLength, AcpiUtGetDescriptorLength
ResourceLength(aml, o) == IF Get8(aml, o) >= 128 THEN Get16(aml, o + 1) ELSE Get8(aml, o) % 8
HeaderLength(aml, o) == LayoutSize(IF Get8(aml, o) >= 128 THEN LargeHeader ELSE SmallHeader)
DescriptorLength(aml, o) == ResourceLength(aml, o) + HeaderLength(aml, o)

SerialType(aml, o) == Get8(aml, o + A("I2c", "Type"))

Known(code) == \E n \in DOMAIN (SmallCode @@ LargeCode) : (SmallCode @@ LargeCode)[n] = code

NameOf(aml, o) ==
  With(CHOOSE n \in DOMAIN (SmallCode @@ LargeCode) :
         (SmallCode @@ LargeCode)[n] = ResourceType(aml, o), LAMBDA name :
      IF name = "SerialBus" THEN SerialTypes[SerialType(aml, o)] ELSE name)

FixedLength == {"Dma", "EndDpf", "Io", "FixedIo", "FixedDma", "EndTag", "Memory24",
                "GenericReg", "Memory32", "FixedMemory32", "ExtAddress64"}

SmallVariableLength == {"Irq", "StartDpf"}

\* AcpiGbl_ResourceAmlSizes: the length after the header.  A serial bus
\* descriptor is held to the size of the part common to all of them.
MinimumLength(aml, o) ==
  (IF ResourceType(aml, o) = LargeCode["SerialBus"] THEN LayoutSize(AmlSerial)
   ELSE LayoutSize(AmlLayout[NameOf(aml, o)])) - HeaderLength(aml, o)

HasCode(aml, o, names) == \E n \in names : Code(n) = ResourceType(aml, o)

LengthAllowed(aml, o) ==
  With(ResourceLength(aml, o), LAMBDA len :
  With(MinimumLength(aml, o), LAMBDA min :
      IF HasCode(aml, o, FixedLength) THEN len = min
      ELSE IF HasCode(aml, o, SmallVariableLength) THEN len \in {min - 1, min}
      ELSE len >= min))

\* AcpiUtValidateResource
ValidateResource(aml, o) ==
  IF ~Known(ResourceType(aml, o)) THEN "AE_AML_INVALID_RESOURCE_TYPE"
  ELSE IF ~LengthAllowed(aml, o) THEN "AE_AML_BAD_RESOURCE_LENGTH"
  ELSE IF /\ ResourceType(aml, o) = LargeCode["SerialBus"]
          /\ SerialType(aml, o) \notin DOMAIN SerialTypes
       THEN "AE_AML_INVALID_RESOURCE_TYPE"
  ELSE "AE_OK"

-----------------------------------------------------------------------------
(* AML to resource: rsmisc.c, AcpiRsConvertAmlToResource.  The state is the  *)
(* resource memory, Resource->Length, ItemCount and whether the table was    *)
(* left; rb and ab are the offsets of the resource and of the descriptor.    *)

BitFlags == ("1BITFLAG" :> 1) @@ ("2BITFLAG" :> 2) @@ ("3BITFLAG" :> 3) @@ ("6BITFLAG" :> 6)

Moves == ("MOVE8" :> 1) @@ ("MOVE16" :> 2) @@ ("MOVE32" :> 4) @@ ("MOVE64" :> 8)

ExtractFlag(byte, shift, width) ==
  [i \in 1 .. 8 |-> IF i <= width /\ i + shift <= 8 THEN byte[i + shift] ELSE 0]

\* AcpiRsDecodeBitmask: the list of the numbers of the bits that are set
DecodeBitmask(mask) ==
  SelectSeq([i \in 1 .. 16 |-> i - 1], LAMBDA b : (mask \div 2^b) % 2 = 1)

\* AcpiRsGetResourceSource: an index byte and a string follow the fixed part
\* of the descriptor.  Returns the memory and the bytes added to the resource.
GetResourceSource(mem, dst, aml, ab, rl, min, stringPtr) ==
  IF rl + LayoutSize(LargeHeader) > min + 1
  THEN With(Strlen(aml, ab + min + 1) + 1, LAMBDA n :
       LET m1  == Put(mem, dst, <<Read(aml, ab + min)>>)
           m2  == Put(Set16(m1, dst + 1, n), dst + 3, PointerTo(stringPtr))
           m3  == Memset(m2, stringPtr, 0, RoundUp(n))
       IN  [mem |-> Memcpy(m3, stringPtr, aml, ab + min + 1, n), added |-> RoundUp(n)])
  ELSE [mem |-> Memset(mem, dst, 0, LayoutSize(RsSource)), added |-> 0]

\* the counting opcodes: the item count, and the bytes it adds to the resource
GetCount(s, aml, ab, row) ==
  LET src == ab + row[3]
      v   == row[4]
  IN
  With(ResourceLength(aml, ab), LAMBDA rl :
  LET U16(n) == n % 65536
  IN  CASE row[1] = "COUNT" -> [item |-> Get8(aml, src), added |-> v * (Get8(aml, src) - 1)]
        [] row[1] = "COUNT16" -> [item |-> rl, added |-> v * (rl - 1)]
        [] row[1] = "COUNT_GPIO_PIN" ->
             With(U16(Get16(aml, ab + v) - Get16(aml, src)), LAMBDA n :
                 [item |-> n \div 2, added |-> n])
        [] row[1] = "COUNT_GPIO_VEN" -> [item |-> Get8(aml, src), added |-> v * Get8(aml, src)]
        [] row[1] = "COUNT_GPIO_RES" ->
             With(IF Get16(aml, ab + v + 2) # 0
                  THEN U16(Get16(aml, ab + v) - Get16(aml, src))
                  ELSE U16(rl + LayoutSize(LargeHeader) - Get16(aml, src)), LAMBDA n :
                 [item |-> n, added |-> n])
        [] row[1] = "COUNT_SERIAL_VEN" ->
             With(U16(Get16(aml, src) - v), LAMBDA n :
                                                  [item |-> n, added |-> n])
        [] row[1] = "COUNT_SERIAL_RES" ->
             With(U16(rl + LayoutSize(LargeHeader) - Get16(aml, src) - v), LAMBDA n :
                 [item |-> n, added |-> n]))

Counts8 == {"COUNT", "COUNT_GPIO_VEN"}
Counts16 == {"COUNT16", "COUNT_GPIO_PIN", "COUNT_GPIO_RES", "COUNT_SERIAL_VEN",
             "COUNT_SERIAL_RES"}

GetCountStep(s, aml, ab, rb, row) ==
  With(GetCount(s, aml, ab, row), LAMBDA c :
      [s EXCEPT !.item = c.item, !.len = @ + c.added,
                !.mem = IF row[1] \in Counts8 THEN Set8(@, rb + row[2], c.item)
                        ELSE Set16(@, rb + row[2], c.item)])

\* MOVE_GPIO_PIN, MOVE_GPIO_RES, MOVE_SERIAL_VEN, MOVE_SERIAL_RES: the data go
\* to the end of the resource as counted so far, and a pointer to them is set
OutOfLine == {"MOVE_GPIO_PIN", "MOVE_GPIO_RES", "MOVE_SERIAL_VEN", "MOVE_SERIAL_RES"}

ItemBytes(s, row) == s.item * (IF row[1] = "MOVE_GPIO_PIN" THEN 2 ELSE 1)

GetOutOfLine(s, aml, ab, rb, row) ==
  LET target == rb + s.len - ItemBytes(s, row)
      from   == ab + (CASE row[1] = "MOVE_SERIAL_VEN" -> row[4]
                        [] row[1] = "MOVE_SERIAL_RES" -> Get16(aml, ab + row[3]) + row[4]
                        [] OTHER -> Get16(aml, ab + row[3]))
  IN  [s EXCEPT !.mem = Memcpy(Put(@, rb + row[2], PointerTo(target)),
                               target, aml, from, ItemBytes(s, row))]

GetBitmask(s, aml, ab, rb, row) ==
  LET mask == IF row[1] = "BITMASK" THEN Get8(aml, ab + row[3]) ELSE Get16(aml, ab + row[3])
  IN
  With(DecodeBitmask(mask), LAMBDA list :
  With(Len(list), LAMBDA n :
  LET m    == Put(s.mem, rb + row[2], [i \in 1 .. n |-> Byte(list[i])])
  IN  [s EXCEPT !.item = n, !.len = IF n > 0 THEN @ + n - 1 ELSE @,
                !.mem = Set8(m, rb + row[4], n)]))

\* the opcodes that only move data, and the flag opcodes
GetMove(s, aml, ab, rb, row) ==
  LET n == IF row[4] # 0 THEN row[4] ELSE s.item
  IN  [s EXCEPT !.item = n,
                !.mem = Memcpy(@, rb + row[2], aml, ab + row[3], n * Moves[row[1]])]

GetSource(s, aml, ab, rb, row) ==
  With(ResourceLength(aml, ab), LAMBDA rl :
  LET dst == rb + row[2]
  IN
  With(IF row[1] = "SOURCE"
       THEN GetResourceSource(s.mem, dst, aml, ab, rl, row[4],
                              dst + LayoutSize(RsSource))
       ELSE GetResourceSource(s.mem, dst, aml, ab, rl, (s.item - 1) * 4 + row[4],
                              rb + row[3] + s.item * 4), LAMBDA got :
      [s EXCEPT !.mem = got.mem, !.len = @ + got.added]))

\* one row; ADDRESS, which runs further tables, is expanded by GetTable
GetStep(s, aml, ab, rb, row) ==
  CASE s.exit -> s
    [] row[1] = "INITGET" -> [s EXCEPT !.mem = Memset(@, rb, 0, row[4]), !.len = row[4]]
    [] row[1] \in {"INITSET", "FLAGINIT"} -> s
    [] row[1] \in DOMAIN BitFlags ->
         [s EXCEPT !.mem = Put(@, rb + row[2],
            <<ExtractFlag(Read(aml, ab + row[3]), row[4], BitFlags[row[1]])>>)]
    [] row[1] \in Counts8 \cup Counts16 -> GetCountStep(s, aml, ab, rb, row)
    [] row[1] \in DOMAIN Moves -> GetMove(s, aml, ab, rb, row)
    [] row[1] \in OutOfLine -> GetOutOfLine(s, aml, ab, rb, row)
    [] row[1] = "SET8" -> [s EXCEPT !.mem = Memset(@, rb + row[2], row[3], row[4])]
    [] row[1] = "COPY8" -> [s EXCEPT !.mem = Memcpy(@, rb + row[2], aml, ab + row[3], 1)]
    [] row[1] \in {"SOURCE", "SOURCEX"} -> GetSource(s, aml, ab, rb, row)
    [] row[1] \in {"BITMASK", "BITMASK16"} -> GetBitmask(s, aml, ab, rb, row)
    [] row[1] = "EXIT_NE_LENGTH" -> [s EXCEPT !.exit = (ResourceLength(aml, ab) # row[4])]

\* AcpiRsGetAddressCommon, AcpiRsSetAddressCommon: the general flags, then the
\* flags of the range's type, or the type-specific byte as it is
MemoryRange == 0
IoRange == 1

AddressRows(type) ==
  GeneralFlags \o
  (IF type = MemoryRange THEN MemFlags
   ELSE IF type = IoRange THEN IoFlags
   ELSE <<<<"COPY8", R("Address16", "Info0"), A("Address16", "SpecificFlags"), 0>>>>)

AddressTypeValid(type) == type <= 2 \/ type >= 192 \/ type = 10

AddressNames == {"Address16", "Address32", "Address64", "ExtAddress64"}

Expand(table, type) ==
  FlattenSeq([i \in 1 .. Len(table) |->
                IF table[i][1] = "ADDRESS" THEN AddressRows(type) ELSE <<table[i]>>])

\* the Type and Length words that start every ACPI_RESOURCE
RsTypes == <<"Irq", "Dma", "StartDpf", "EndDpf", "Io", "FixedIo", "Vendor", "EndTag",
  "Memory24", "Memory32", "FixedMemory32", "Address16", "Address32", "Address64",
  "ExtAddress64", "ExtIrq", "GenericReg", "Gpio", "FixedDma", "SerialBus", "PinFunction",
  "PinConfig", "PinGroup", "PinGroupFunction", "PinGroupConfig", "ClockInput">>

TypeCode(name) ==
  LET type == IF name \in ToSet(SerialTypes) THEN "SerialBus" ELSE RsType(name)
  IN  (CHOOSE i \in DOMAIN RsTypes : RsTypes[i] = type) - 1

SetRsHeader(mem, rb, name, len) ==
  Set16(Set16(Set16(Set16(mem, rb, TypeCode(name)), rb + 2, 0), rb + 4, len), rb + 6, 0)

\* AcpiRsConvertAmlToResource, with the dispatch of AcpiRsConvertAmlToResources
ConvertAmlToResource(mem, rb, aml, ab) ==
  With(NameOf(aml, ab), LAMBDA name :
  With(IF name \in AddressNames THEN Get8(aml, ab + A("Address16", "ResourceType"))
       ELSE 0, LAMBDA type :
  With(FoldLeft(LAMBDA x, row : GetStep(x, aml, ab, rb, row),
                [mem |-> mem, len |-> 0, item |-> 0, exit |-> FALSE],
                Expand(Gbl_GetResourceDispatch[name], type)), LAMBDA s :
      IF ~AddressTypeValid(type)
      THEN [status |-> "AE_AML_INVALID_RESOURCE_TYPE", mem |-> mem, len |-> 0]
      ELSE [status |-> "AE_OK", len |-> RoundUp(s.len),
            mem |-> SetRsHeader(s.mem, rb, name, RoundUp(s.len))])))

-----------------------------------------------------------------------------
(* Resource to AML: rsmisc.c, AcpiRsConvertResourceToAml.  The state is the  *)
(* AML memory, AmlLength and ItemCount.                                      *)

\* AcpiRsSetResourceLength
SetResourceLength(aml, ab, total) ==
  IF Get8(aml, ab) >= 128 THEN Set16(aml, ab + 1, total - LayoutSize(LargeHeader))
  ELSE LET b   == Byte(Get8(aml, ab) - (Get8(aml, ab) % 8))
           len == Byte((total - LayoutSize(SmallHeader)) % 256)
       IN  Put(aml, ab, <<[i \in 1 .. 8 |-> OrBits(b[i], len[i])]>>)

\* AcpiRsSetResourceHeader, after the descriptor was cleared
InitDescriptor(aml, ab, name, size) ==
  SetResourceLength(Set8(Memset(aml, ab, 0, size), ab, Code(name)), ab, size)


InsertFlag(byte, flag, shift, width) ==
  [i \in 1 .. 8 |-> IF i \in shift + 1 .. shift + width THEN OrBits(byte[i], flag[i - shift])
                    ELSE byte[i]]

\* AcpiRsEncodeBitmask
EncodeBitmask(mem, o, count) ==
  LET listed == {Get8(mem, o + i) : i \in 0 .. count - 1}
  IN  FoldLeft(LAMBDA n, b : n + (IF b \in listed THEN 2^b ELSE 0), 0,
               [i \in 1 .. 16 |-> i - 1])

\* AcpiRsSetResourceSource
SetResourceSource(aml, ab, min, rs, src) ==
  With(Get16(rs, src + 1), LAMBDA n :
  LET string == Target(Read(rs, src + 3))
      m == Put(aml, ab + min, <<Read(rs, src)>>)
  IN  IF n = 0 THEN [aml |-> aml, len |-> min]
      ELSE [aml |-> Memcpy(m, ab + min + 1, rs, string, Strlen(rs, string) + 1),
            len |-> min + n + 1])

\* the counting opcodes: the bytes the item count adds to the descriptor, and
\* the offsets or counts that are stored in it
SetCountStep(s, rs, rb, ab, row) ==
  LET src  == rb + row[2]
      dst  == ab + row[3]
      v    == row[4]
  IN
  With(IF row[1] = "COUNT" THEN Get8(rs, src) ELSE Get16(rs, src), LAMBDA item :
  With(s.len + (CASE row[1] = "COUNT" -> v * (item - 1)
                  [] row[1] = "COUNT_GPIO_PIN" -> 2 * item
                  [] row[1] = "COUNT_GPIO_VEN" -> v * item
                  [] OTHER -> item), LAMBDA len :
  With(CASE row[1] = "COUNT" -> Set8(s.mem, dst, item)
         [] row[1] \in {"COUNT_GPIO_PIN", "COUNT_GPIO_RES"} ->
              Set16(Set16(s.mem, dst, s.len), ab + v, len)
         [] row[1] = "COUNT_GPIO_VEN" -> Set16(s.mem, dst, item)
         [] row[1] = "COUNT_SERIAL_VEN" -> Set16(s.mem, dst, item + v)
         [] OTHER -> s.mem, LAMBDA aml :
      [s EXCEPT !.item = item, !.len = len,
                !.mem = IF row[1] = "COUNT" THEN aml ELSE SetResourceLength(aml, ab, len)])))

SetOutOfLine(s, rs, rb, ab, row) ==
  LET to == ab + (IF row[1] \in {"MOVE_GPIO_PIN", "MOVE_GPIO_RES"}
                  THEN Get16(s.mem, ab + row[3]) ELSE s.len - s.item)
  IN  [s EXCEPT !.mem = Memcpy(@, to, rs, Target(Read(rs, rb + row[2])), ItemBytes(s, row))]

SetMove(s, rs, rb, ab, row) ==
  LET n == IF row[4] # 0 THEN row[4] ELSE s.item
  IN  [s EXCEPT !.item = n,
                !.mem = Memcpy(@, ab + row[3], rs, rb + row[2], n * Moves[row[1]])]

SetSource(s, rs, rb, ab, row) ==
  With(SetResourceSource(s.mem, ab, IF row[1] = "SOURCE" THEN row[4] ELSE s.len,
                         rs, rb + row[2]), LAMBDA set :
      [s EXCEPT !.len = set.len, !.mem = SetResourceLength(set.aml, ab, set.len)])

SetBitmask(s, rs, rb, ab, row) ==
  With(EncodeBitmask(rs, rb + row[2], Get8(rs, rb + row[4])), LAMBDA mask :
      [s EXCEPT !.mem = IF row[1] = "BITMASK" THEN Set8(@, ab + row[3], mask)
                        ELSE Set16(@, ab + row[3], mask)])

SetStep(s, rs, rb, ab, row) ==
  CASE s.exit -> s
    [] row[1] = "INITSET" ->
         [s EXCEPT !.mem = InitDescriptor(@, ab, row[2], row[4]), !.len = row[4]]
    [] row[1] = "INITGET" -> s
    [] row[1] = "FLAGINIT" -> [s EXCEPT !.mem = Set8(@, ab + row[3], 0)]
    [] row[1] \in DOMAIN BitFlags ->
         [s EXCEPT !.mem = Put(@, ab + row[3],
            <<InsertFlag(Read(@, ab + row[3]), Read(rs, rb + row[2]), row[4],
                         BitFlags[row[1]])>>)]
    [] row[1] \in Counts8 \cup Counts16 -> SetCountStep(s, rs, rb, ab, row)
    [] row[1] = "LENGTH" -> [s EXCEPT !.mem = SetResourceLength(@, ab, row[4])]
    [] row[1] \in DOMAIN Moves -> SetMove(s, rs, rb, ab, row)
    [] row[1] \in OutOfLine -> SetOutOfLine(s, rs, rb, ab, row)
    [] row[1] = "COPY8" -> [s EXCEPT !.mem = Memcpy(@, ab + row[3], rs, rb + row[2], 1)]
    [] row[1] \in {"SOURCE", "SOURCEX"} -> SetSource(s, rs, rb, ab, row)
    [] row[1] \in {"BITMASK", "BITMASK16"} -> SetBitmask(s, rs, rb, ab, row)
    [] row[1] = "EXIT_LE" -> [s EXCEPT !.exit = (s.item <= row[4])]
    [] row[1] = "EXIT_NE" -> [s EXCEPT !.exit = (Get8(rs, rb + row[2]) # row[4])]
    [] row[1] = "EXIT_EQ" -> [s EXCEPT !.exit = (Get8(rs, rb + row[2]) = row[4])]

\* the resource at rb: its conversion table is chosen by its Type word
RsName(rs, rb) ==
  With(RsTypes[Get16(rs, rb) + 1], LAMBDA type :
      IF type = "SerialBus" THEN SerialTypes[Get8(rs, rb + R("I2c", "Type"))] ELSE type)

RsLength(rs, rb) == Get16(rs, rb + 4)

ConvertResourceToAml(aml, ab, rs, rb) ==
  With(RsName(rs, rb), LAMBDA name :
  With(IF name \in AddressNames THEN Get8(rs, rb + R("Address16", "ResourceType"))
       ELSE 0, LAMBDA type :
      FoldLeft(LAMBDA x, row : SetStep(x, rs, rb, ab, row),
               [mem |-> aml, len |-> 0, item |-> 0, exit |-> FALSE],
               Expand(Gbl_SetResourceDispatch[name], type)).mem))

-----------------------------------------------------------------------------
(* rscalc.c: the sizes, calculated before the conversions *)

\* AcpiRsStructOptionLength: index byte and string of a resource's source
StructOptionLength(rs, src) ==
  IF Read(rs, src + 3) # Byte(0) THEN Get16(rs, src + 1) + 1 ELSE 0

\* Mutant: the index byte of the source counted twice.
StreamOptionLengthShort(length, minimum) ==
  RoundUp(IF length > minimum THEN length - minimum - 2 ELSE 0)

\* AcpiRsStreamOptionLength
StreamOptionLength(length, minimum) ==
  RoundUp(IF length > minimum THEN length - minimum - 1 ELSE 0)

\* AcpiRsGetAmlLength, one resource
AmlSize(rs, rb) ==
  With(RsName(rs, rb), LAMBDA name :
  With(IF name = "Vendor" THEN LayoutSize(SmallHeader) ELSE LayoutSize(AmlLayout[name]), LAMBDA base :
  LET Field16(f) == Get16(rs, rb + R(name, f))
  IN  CASE name = "Irq" -> IF Get8(rs, rb + R(name, "DescriptorLength")) = 2
                           THEN base - 1 ELSE base
        [] name = "StartDpf" -> IF Get8(rs, rb + R(name, "DescriptorLength")) = 0
                                THEN base - 1 ELSE base
        [] name = "Vendor" -> Field16("ByteLength")
             + (IF Field16("ByteLength") > 7 THEN LayoutSize(LargeHeader) ELSE base)
        [] name \in {"Address16", "Address32", "Address64"} ->
             base + StructOptionLength(rs, rb + R(name, "SourceIndex"))
        [] name = "ExtIrq" ->
             base + 4 * (Get8(rs, rb + R(name, "InterruptCount")) - 1)
                  + StructOptionLength(rs, rb + R(name, "SourceIndex"))
        [] name \in {"Gpio", "PinFunction", "PinConfig"} ->
             base + 2 * Field16("PinTableLength") + Field16("StringLength")
                  + Field16("VendorLength")
        [] name = "ClockInput" -> base + Field16("StringLength")
        [] name \in ToSet(SerialTypes) -> base + Field16("StringLength") + Field16("VendorLength")
        [] name = "PinGroup" ->
             base + 2 * Field16("PinTableLength") + Field16("LabelLength")
                  + Field16("VendorLength")
        [] name \in {"PinGroupFunction", "PinGroupConfig"} ->
             base + Field16("StringLength") + Field16("LabelLength") + Field16("VendorLength")
        [] OTHER -> base))

\* AcpiRsCountSetBits
CountSetBits(n) == Len(DecodeBitmask(n))

\* AcpiRsGetListLength, one descriptor: the bytes beyond the fixed structure
ExtraStructBytes(aml, ab) ==
  With(NameOf(aml, ab), LAMBDA name :
  With(ResourceLength(aml, ab), LAMBDA rl :
  With(MinimumLength(aml, ab), LAMBDA min :
  LET Field(f)    == Get16(aml, ab + A(name, f))
      UpTo(from)  == IF Field("VendorLength") # 0
                     THEN Field("VendorOffset") - Field(from) + Field("VendorLength")
                     ELSE rl + LayoutSize(LargeHeader) - Field(from)
  IN
  With(4 * (Get8(aml, ab + A("ExtIrq", "InterruptCount")) - 1), LAMBDA interrupts :
      CASE name = "Irq" -> CountSetBits(Get16(aml, ab + 1))
        [] name = "Dma" -> CountSetBits(Get8(aml, ab + 1))
        [] name \in {"VendorSmall", "VendorLarge"} -> IF rl > 0 THEN rl - 1 ELSE 0
        [] name \in {"Address16", "Address32", "Address64", "ClockInput"} ->
             StreamOptionLength(rl, min)
        [] name = "ExtIrq" -> interrupts + StreamOptionLength(rl - interrupts, min)
        [] name \in {"Gpio", "PinFunction", "PinConfig"} -> UpTo("PinTableOffset")
        [] name \in ToSet(SerialTypes) ->
             rl - (LayoutSize(AmlLayout[name]) - LayoutSize(LargeHeader))
        [] name = "PinGroup" ->
             Field("VendorOffset") - Field("PinTableOffset") + Field("VendorLength")
        [] name \in {"PinGroupFunction", "PinGroupConfig"} ->
             Field("VendorOffset") - Field("ResSourceOffset") + Field("VendorLength")
        [] OTHER -> 0))))

StructSize(aml, ab) == RoundUp(RsSize(RsType(NameOf(aml, ab))) + ExtraStructBytes(aml, ab))

-----------------------------------------------------------------------------
(* rscreate.c, rslist.c: whole templates and lists *)

IsEndTag(aml, ab) == ResourceType(aml, ab) = SmallCode["EndTag"]

\* AcpiRsGetListLength
RECURSIVE GetListLength(_, _, _, _)
GetListLength(aml, ab, end, size) ==
  IF ab >= end THEN [status |-> "AE_AML_NO_RESOURCE_END_TAG", size |-> size]
  ELSE IF ValidateResource(aml, ab) # "AE_OK"
  THEN [status |-> ValidateResource(aml, ab), size |-> size]
  ELSE IF IsEndTag(aml, ab) THEN [status |-> "AE_OK", size |-> size]
  ELSE GetListLength(aml, ab + DescriptorLength(aml, ab), end, size + StructSize(aml, ab))

\* AcpiUtWalkAmlResources with AcpiRsConvertAmlToResources as its callback
RECURSIVE WalkAmlResources(_, _, _, _, _)
WalkAmlResources(mem, rb, aml, ab, end) ==
  LET tag == (0 :> Byte(SmallCode["EndTag"] + 1)) @@ (1 :> Byte(0))
  IN
  With(IF ab >= end THEN "AE_OK" ELSE ValidateResource(aml, ab), LAMBDA valid :
  With(ConvertAmlToResource(mem, rb, IF ab >= end THEN tag ELSE aml, IF ab >= end THEN 0 ELSE ab), LAMBDA c :
      IF valid # "AE_OK" THEN [status |-> valid, mem |-> mem, end |-> rb]
      ELSE IF ab >= end
      THEN [status |-> "AE_AML_NO_RESOURCE_END_TAG", mem |-> c.mem, end |-> rb + c.len]
      ELSE IF c.status # "AE_OK" THEN [status |-> c.status, mem |-> c.mem, end |-> rb]
      ELSE IF IsEndTag(aml, ab)
      THEN [status |-> IF ab + 1 >= end THEN "AE_AML_NO_RESOURCE_END_TAG" ELSE "AE_OK",
            mem |-> c.mem, end |-> rb + c.len]
      ELSE WalkAmlResources(c.mem, rb + c.len, aml, ab + DescriptorLength(aml, ab), end)))

\* AcpiRsCreateResourceList: the list for a template of the given length, the
\* size of the buffer that was allocated for it and the bytes it takes
CreateResourceList(aml, length) ==
  With(GetListLength(aml, 0, length, RsSizeMin), LAMBDA size :
  With(IF length < LayoutSize(AmlLayout["EndTag"])
       THEN [status |-> "AE_AML_NO_RESOURCE_END_TAG", mem |-> <<>>, end |-> 0]
       ELSE WalkAmlResources(<<>>, 0, aml, 0, length), LAMBDA walk :
      IF size.status # "AE_OK"
      THEN [status |-> size.status, size |-> 0, mem |-> <<>>, end |-> 0]
      ELSE [status |-> walk.status, size |-> size.size, mem |-> walk.mem, end |-> walk.end]))

\* AcpiRsGetAmlLength
RECURSIVE GetAmlLength(_, _, _, _)
GetAmlLength(rs, rb, end, size) ==
  IF rb >= end THEN [status |-> "AE_AML_NO_RESOURCE_END_TAG", size |-> size]
  ELSE IF RsLength(rs, rb) = 0 THEN [status |-> "AE_AML_BAD_RESOURCE_LENGTH", size |-> size]
  ELSE IF RsName(rs, rb) = "EndTag"
  THEN [status |-> "AE_OK", size |-> size + AmlSize(rs, rb)]
  ELSE GetAmlLength(rs, rb + RsLength(rs, rb), end, size + AmlSize(rs, rb))

\* AcpiRsConvertResourcesToAml: the resource at rb, then the ones after it
RECURSIVE ConvertResourcesToAml(_, _, _, _, _), ConvertTheRest(_, _, _, _, _)
ConvertResourcesToAml(aml, ab, end, rs, rb) ==
  IF ab >= end THEN [status |-> "AE_AML_NO_RESOURCE_END_TAG", mem |-> aml, end |-> ab]
  ELSE IF RsLength(rs, rb) = 0
  THEN [status |-> "AE_AML_BAD_RESOURCE_LENGTH", mem |-> aml, end |-> ab]
  ELSE ConvertTheRest(ConvertResourceToAml(aml, ab, rs, rb), ab, end, rs, rb)

ConvertTheRest(aml, ab, end, rs, rb) ==
  IF ValidateResource(aml, ab) # "AE_OK"
  THEN [status |-> ValidateResource(aml, ab), mem |-> aml, end |-> ab]
  ELSE IF RsName(rs, rb) = "EndTag"
  THEN [status |-> "AE_OK", mem |-> aml, end |-> ab + DescriptorLength(aml, ab)]
  ELSE ConvertResourcesToAml(aml, ab + DescriptorLength(aml, ab), end, rs, rb + RsLength(rs, rb))

\* AcpiRsCreateAmlResources
CreateAmlResources(rs, length) ==
  With(GetAmlLength(rs, 0, length, 0), LAMBDA size :
  With(ConvertResourcesToAml(<<>>, 0, size.size, rs, 0), LAMBDA conv :
      IF size.status # "AE_OK"
      THEN [status |-> size.status, size |-> 0, mem |-> <<>>, end |-> 0]
      ELSE [status |-> conv.status, size |-> size.size, mem |-> conv.mem, end |-> conv.end]))

-----------------------------------------------------------------------------
(* PCI routing tables: rscalc.c, AcpiRsGetPciRoutingTableLength, and           *)
(* rscreate.c, AcpiRsCreatePciRoutingTable.  A _PRT entry is abstracted to its *)
(* interrupt source: nothing, an integer, a string or the path of a link      *)
(* device, with the length of the text (its terminating null included).       *)

PrtFixed == 20                    \* sizeof (ACPI_PCI_ROUTING_TABLE) - 4

PrtText(source) == IF source.kind \in {"string", "path"} THEN source.length ELSE 0

RoutingTableLength(prt) ==
  FoldLeft(LAMBDA n, e : RoundUp(n + PrtFixed + (IF PrtText(e) > 0 THEN PrtText(e) ELSE 4)),
           0, prt) + PrtFixed + 4

\* the length of the entry that AcpiRsCreatePciRoutingTable builds
PrtEntryLength(source) ==
  RoundUp(PrtFixed + (IF source.kind = "integer" THEN 4 ELSE PrtText(source)))

RoutingTableUsed(prt) == FoldLeft(LAMBDA n, e : n + PrtEntryLength(e), 0, prt)

-----------------------------------------------------------------------------
(* A driver reads a device's resources (_CRS), writes them back (_SRS) and     *)
(* reads them again.                                                           *)

CONSTANTS Templates,   \* the resource templates the firmware may report
          RoutingTables \* the routing tables it may report

VARIABLES template,    \* what _CRS returns: [mem, len, size]
          list,        \* the list the driver holds, and the buffer it is in
          prt          \* the _PRT package

rsVars == <<template, list, prt>>

NoList == [status |-> "none", size |-> 0, mem |-> <<>>, end |-> 0]

ResourceInit ==
  /\ list = NoList
  /\ \/ prt = <<>> /\ template \in Templates
     \/ prt \in RoutingTables /\ template = [mem |-> <<>>, len |-> 0, size |-> 0]

\* AcpiGetCurrentResources -> AcpiRsGetCrsMethodData
GetCurrentResources ==
  /\ template.len > 0
  /\ list' = CreateResourceList(template.mem, template.len)
  /\ UNCHANGED <<template, prt>>

\* AcpiSetCurrentResources -> AcpiRsSetSrsMethodData; the firmware then
\* reports what was set
SetCurrentResources ==
  /\ list.status = "AE_OK"
  /\ With(CreateAmlResources(list.mem, list.size), LAMBDA c :
         /\ c.status = "AE_OK"
         /\ template' = [mem |-> c.mem, len |-> c.end, size |-> c.size])
  /\ UNCHANGED <<list, prt>>

ResourceNext == GetCurrentResources \/ SetCurrentResources

-----------------------------------------------------------------------------
(* Properties *)

InsideBuffer(mem, size) == DOMAIN mem \subseteq 0 .. size - 1

Initialized(mem) == \A o \in DOMAIN mem : mem[o] # Garbage

\* Every template is accepted, and the list built from it, every string, pin
\* table and vendor block included, is written inside the buffer whose size
\* AcpiRsGetListLength calculated beforehand, from bytes of the template only.
ListFits ==
  list.status # "none" =>
    /\ list.status = "AE_OK"
    /\ list.end <= list.size /\ InsideBuffer(list.mem, list.size)
    /\ Initialized(list.mem)

\* A list written back fills exactly the buffer AcpiRsGetAmlLength calculated
\* for it, and nothing beyond.
TemplateFits ==
  /\ template.len = template.size
  /\ InsideBuffer(template.mem, template.size) /\ Initialized(template.mem)

\* Writing back the list just read loses nothing: a bit the firmware may choose
\* comes back as it was, or cleared where the specification reserves it.
KeepsTemplate ==
  list' = list =>
    /\ template'.len = template.len
    /\ \A o \in 0 .. template.len - 1 : \A b \in 1 .. 8 :
         template.mem[o][b] > 1 => template'.mem[o][b] \in {template.mem[o][b], 0}

\* A _PRT's entries fit in the buffer AcpiRsGetPciRoutingTableLength calculated,
\* with room for the final entry of length zero.
RoutingTableFits == RoutingTableUsed(prt) + PrtFixed <= RoutingTableLength(prt)

-----------------------------------------------------------------------------
(***************************************************************************)
(* Instances of AcpiResource: every kind of descriptor, with pin tables,   *)
(* strings and vendor data of every small length, followed by an end tag.  *)
(***************************************************************************)

\* the descriptor at offset o: fields the code only moves are symbols
Blank(o, size) == [i \in o .. o + size - 1 |-> SymbolAt(i)]

Header(mem, o, name, size) ==
  IF Code(name) >= 128 THEN Set16(Set8(mem, o, Code(name)), o + 1, size - 3)
  ELSE Set8(mem, o, Code(name) + size - 1)

StringAt(mem, o, n) == IF n = 0 THEN mem ELSE Set8(mem, o + n - 1, 0)

WithEndTag(mem, len) ==
  [mem |-> Set8(Set8(mem, len, SmallCode["EndTag"] + 1), len + 1, 0),
   len |-> len + 2, size |-> len + 2]

Fixed(name, size) == WithEndTag(Header(Blank(0, size), 0, name, size), size)

Full(name) == LayoutSize(AmlLayout[name])

FixedTemplates ==
  {Fixed(n, Full(n)) : n \in {"EndDpf", "Io", "FixedIo", "FixedDma", "Memory24", "GenericReg",
                              "Memory32", "FixedMemory32", "StartDpf"}}
  \cup {Fixed("StartDpf", 1)}

IrqTemplates ==
  {WithEndTag(Set16(Header(Blank(0, n), 0, "Irq", n), 1, mask), n) :
     n \in {3, 4}, mask \in {0, 1, 32768, 33000, 65535}}
  \cup {WithEndTag(Set8(Header(Blank(0, 3), 0, "Dma", 3), 1, mask), 3) :
          mask \in {0, 1, 128, 255}}

\* lengths of vendor data; up to seven bytes a list becomes a small descriptor
CONSTANT VendorLengths

VendorTemplates ==
  {Fixed("VendorSmall", 1 + n) : n \in VendorLengths \cap 0 .. 7}
  \cup {Fixed("VendorLarge", 3 + n) : n \in VendorLengths \ (0 .. 7)}

\* an index byte and a string of n bytes, or nothing, after the fixed part
Sourced(name, at, n) ==
  LET size == at + (IF n = 0 THEN 0 ELSE 1 + n)
  IN  StringAt(Header(Blank(0, size), 0, name, size), at + 1, n)

SourceLengths == {0, 1, 2, 8, 9}

SourceTemplates ==
  {With(Set8(Sourced(name, Full(name), n), A("Address16", "ResourceType"), type), LAMBDA m :
       WithEndTag(m, Cardinality(DOMAIN m))) :
     name \in {"Address16", "Address32", "Address64"}, n \in SourceLengths,
     type \in {0, 1, 2, 10, 192}}
  \cup
  {With(Set8(Blank(0, Full("ExtAddress64")), A("Address16", "ResourceType"), type), LAMBDA m :
       WithEndTag(Header(m, 0, "ExtAddress64", Full("ExtAddress64")), Full("ExtAddress64"))) :
     type \in {0, 1, 2}}
  \cup
  {With(Set8(Sourced("ExtIrq", Full("ExtIrq") + 4 * (k - 1), n),
             A("ExtIrq", "InterruptCount"), k), LAMBDA m :
       WithEndTag(m, Cardinality(DOMAIN m))) : k \in 1 .. 3, n \in SourceLengths}

\* pin table, source string and vendor data, one after the other
PinLengths == {0, 1, 3}
TextLengths == {0, 1, 5}
DataLengths == {0, 1, 4}

Pinned(name, next, k, n, d) ==
  With(Full(name), LAMBDA at :
  With(at + 2 * k + n + d, LAMBDA size :
  LET m1   == Set16(Header(Blank(0, size), 0, name, size), A(name, "PinTableOffset"), at)
      m2   == Set16(Set16(m1, A(name, next), at + 2 * k),
                    A(name, "VendorOffset"), at + 2 * k + n)
  IN  WithEndTag(StringAt(Set16(m2, A(name, "VendorLength"), d), at + 2 * k, n), size)))

Labelled(name, n, l, d) ==
  With(Full(name), LAMBDA at :
  With(at + n + l + d, LAMBDA size :
  LET m1   == Set16(Header(Blank(0, size), 0, name, size), A(name, "ResSourceOffset"), at)
      m2   == Set16(Set16(m1, A(name, "ResSourceLabelOffset"), at + n),
                    A(name, "VendorOffset"), at + n + l)
  IN  WithEndTag(StringAt(StringAt(Set16(m2, A(name, "VendorLength"), d), at, n), at + n, l), size)))

\* vendor data is optional: without any, its offset may be zero too
NoVendorOffset(t, name) == [t EXCEPT !.mem = Set16(@, A(name, "VendorOffset"), 0)]

PinTemplates ==
  {Pinned(name, "ResSourceOffset", k, n, d) : name \in {"Gpio", "PinFunction", "PinConfig"},
     k \in PinLengths, n \in TextLengths, d \in DataLengths}
  \cup {NoVendorOffset(Pinned(name, "ResSourceOffset", k, n, 0), name) :
          name \in {"Gpio", "PinFunction", "PinConfig"}, k \in PinLengths, n \in TextLengths}
  \cup {Pinned("PinGroup", "LabelOffset", k, n, d) :
          k \in PinLengths, n \in TextLengths, d \in DataLengths}
  \cup {Labelled(name, n, l, d) : name \in {"PinGroupFunction", "PinGroupConfig"},
          n \in TextLengths, l \in TextLengths, d \in DataLengths}

SerialCode(name) == CHOOSE i \in 1 .. 4 : SerialTypes[i] = name

SerialTemplates ==
  {With(Full(name) + d + n, LAMBDA size :
   LET m == Set8(Header(Blank(0, size), 0, name, size), A(name, "Type"), SerialCode(name))
   IN  WithEndTag(StringAt(Set16(m, A(name, "TypeDataLength"),
                             Full(name) - LayoutSize(AmlSerial) + d), Full(name) + d, n), size)) :
     name \in ToSet(SerialTypes), d \in DataLengths, n \in TextLengths}

\* two descriptors in one template: the second starts where the first ends
Then(t, u) ==
  WithEndTag([o \in 0 .. t.len + u.len - 5 |->
                IF o < t.len - 2 THEN t.mem[o] ELSE u.mem[o - t.len + 2]],
             t.len + u.len - 4)

PairTemplates ==
  {Then(t, u) : t \in IrqTemplates, u \in VendorTemplates}

MCTemplates == FixedTemplates \cup IrqTemplates \cup VendorTemplates \cup SourceTemplates
               \cup PinTemplates \cup SerialTemplates \cup PairTemplates

Sources == [kind : {"none", "integer"}, length : {0}]
           \cup [kind : {"string", "path"}, length : {1, 4, 5, 12}]

MCRoutingTables == UNION {[1 .. n -> Sources] : n \in 1 .. 3}
=============================================================================
