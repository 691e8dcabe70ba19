SPECIFICATION Spec
CONSTANTS
  BYTE = 4
  NIBBLE = 2
  SIZEOF_TSS = 6
  TssBases <- MCTssBases
  Exceptions = {0, 8, 14, 20}
  Irqs = {32, 33, 36}
  MaxDepth = 3
INVARIANTS TypeOK RegsMatch DescriptorsValid
PROPERTY Resumes
